---- MODULE Spec2Model ----
(***************************************************************************)
(* Data reconciliation and metrics engine of MultimarksActives:            *)
(*   - the delimited-text repair parser  (src/src/csv_fix.py)              *)
(*   - the SKU index and resolver        (src/src/io.py)                   *)
(*   - enrichment and aggregation        (src/src/transform.py)            *)
(* A Python str is a sequence of symbols.  A symbol is one character; a    *)
(* run of letters that the code never looks inside (a column name, a cell  *)
(* text) is written as one symbol.                                         *)
(***************************************************************************)
EXTENDS Integers, Sequences, FiniteSets, TLC

VARIABLES
    \* ---- repair parser, fix_broken_csv_bytes ----
    text,           \* the decoded input text
    lines,          \* text.splitlines(): the header line, then the data lines
    pc,             \* position in fix_broken_csv_bytes
    separator,      \* detected separator
    header,         \* stripped header fields
    expected_cols,  \* len(header)
    text_col_idx,   \* find_text_column(header)
    i,              \* line cursor (0-based, as in the code)
    start_line_no,  \* 1-based first line of the record being built
    buf,            \* text of the record being built
    parts,          \* split_naive(buf, separator)
    joined,         \* continuation lines joined onto the current record
    fixes,          \* report["fixes"]
    stats,          \* report["stats"]
    rows,           \* the rows handed to writer.writerow, header first
    output,         \* the text lines csv.writer produced for them
    \* ---- SKU index, criar_indice_sku / buscar_sku ----
    df_bd,          \* the processed catalog (BD Produtos), a sequence of rows
    ipc,            \* position in the index build
    bd_pos,         \* catalog rows already iterated by criar_indice_sku
    indice,         \* the dict under construction / returned
    consulta,       \* the code last handed to buscar_sku
    resultado,      \* what buscar_sku returned for it
    \* ---- enrichment and aggregation, processar_vendas_cached ----
    fonte,          \* "xlsx" or "csv": how ler_arquivo read the sales file
    df_vendas,      \* the processed sales table, a sequence of rows
    mpc,            \* position in the pipeline of processar_vendas_cached
    df_enriquecido, \* df_vendas_enriquecido
    avisos,         \* the warnings of enriquecer_vendas_com_marca
    df_filtrado,    \* df_vendas_filtrado
    df_clientes,    \* the client-cycle table
    df_setor_ciclo, \* the sector-cycle table
    df_auditoria,   \* the audit table of gerar_auditoria_skus
    metricas_gerais, \* the dict of calcular_metricas_gerais
    \* ---- single calls of the helper functions ----
    chamada,        \* the function called and its arguments
    fpc,            \* "call" before the function ran, "returned" after
    retorno,        \* what it returned or raised
    \* ---- two reconciliation runs over one catalog ----
    execucoes       \* per run: its sales table, position, index and results

rvars == <<text, lines, pc, separator, header, expected_cols, text_col_idx, i,
           start_line_no, buf, parts, joined, fixes, stats, rows, output>>

ivars == <<df_bd, ipc, bd_pos, indice, consulta, resultado>>

mvars == <<fonte, df_vendas, mpc, df_enriquecido, avisos, df_filtrado, df_clientes,
           df_setor_ciclo, df_auditoria, metricas_gerais>>

fvars == <<chamada, fpc, retorno>>

evars == <<execucoes>>

vars == <<rvars, ivars, mvars, fvars, evars>>

-----------------------------------------------------------------------------
(* Bound of the repair-parser inputs: symbols of text after the header line *)
MaxTextLen == 5
(* Bound of the index inputs: rows of the catalog *)
MaxCatalogo == 3
(* Bounds of the sales tables: rows of a table that varies product and name, *)
(* of one that varies cycle, sector and customer code, and of one that      *)
(* varies record type, quantity and amount                                  *)
MaxVendasMarca == 4
MaxVendasGrupo == 3
MaxVendasTotais == 2
(* Bound of the sales table that varies the raw product code *)
MaxVendasProduto == 3
(* Bounds of the sales tables of the alert: matched sale rows, and rows of  *)
(* each kind of unmatched row                                               *)
MaxVendasAlerta == 40
MaxNaoEncontrados == 2
(* Bound of the header of a catalog file: columns *)
MaxColunas == 4
(* Bound of the header lines handed to detect_sep: characters *)
MaxCabecalho == 4
(* Bound of the sales table of each of two interleaved runs: rows *)
MaxVendasExecucao == 2
(* Bound of the scalar values handed to normalizar_sku: characters *)
MaxValorLen == 5
(* Bound of the one data record handed to a repair implementation: characters *)
MaxRegistro == 7
(* Bound of the text after the header handed to a repair run twice: characters *)
MaxCorpo == 7

Quote == "\""
Newline == "\n"
Blank == " "

Min(a, b) == IF a < b THEN a ELSE b
Max(a, b) == IF a > b THEN a ELSE b

\* the concatenation of a sequence of sequences
RECURSIVE Flatten(_)
Flatten(ss) == IF Len(ss) = 0 THEN <<>> ELSE ss[1] \o Flatten(Tail(ss))

RECURSIVE SeqsUpTo(_, _)
SeqsUpTo(S, n) ==
    IF n = 0 THEN {<<>>}
    ELSE LET shorter == SeqsUpTo(S, n - 1)
         IN shorter \cup {Append(s, x) : s \in {t \in shorter : Len(t) = n - 1}, x \in S}

-----------------------------------------------------------------------------
(* Helpers of fix_broken_csv_bytes *)

\* str.count(ch)
Count(line, ch) == Cardinality({k \in DOMAIN line : line[k] = ch})

\* detect_sep: max(counts, key=counts.get) returns the first key, in the
\* insertion order | ; , \t, that has the highest count; "," when all are 0.
Candidates == <<"|", ";", ",", "\t">>

\* mutant of detect_sep: the last of the candidates with the highest count
detect_sep_UltimoEmpate(first_line) ==
    LET best == CHOOSE k \in DOMAIN Candidates :
                    /\ \A j \in DOMAIN Candidates :
                          Count(first_line, Candidates[j]) <= Count(first_line, Candidates[k])
                    /\ \A j \in (k + 1)..Len(Candidates) :
                          Count(first_line, Candidates[j]) < Count(first_line, Candidates[k])
    IN IF Count(first_line, Candidates[best]) > 0 THEN Candidates[best] ELSE ","

detect_sep(first_line) ==
    LET best == CHOOSE k \in DOMAIN Candidates :
                    /\ \A j \in DOMAIN Candidates :
                          Count(first_line, Candidates[j]) <= Count(first_line, Candidates[k])
                    /\ \A j \in 1..(k - 1) :
                          Count(first_line, Candidates[j]) < Count(first_line, Candidates[k])
    IN IF Count(first_line, Candidates[best]) > 0 THEN Candidates[best] ELSE ","

\* line 90: separator = sep if sep else detect_sep(header_line); the keyword
\* argument sep is None ("None" here) unless the caller gives one
EscolherSeparador(sep, header_line) ==
    IF sep # "None" /\ sep # "" THEN sep ELSE detect_sep(header_line)

\* str.splitlines(): the pieces between line breaks; a final line break opens
\* no further line, and the empty text has no line
splitlines(t) ==
    LET RECURSIVE go(_, _, _)
        go(k, cur, acc) ==
            IF k > Len(t) THEN (IF cur = <<>> THEN acc ELSE Append(acc, cur))
            ELSE IF t[k] = Newline THEN go(k + 1, <<>>, Append(acc, cur))
            ELSE go(k + 1, Append(cur, t[k]), acc)
    IN go(1, <<>>, <<>>)

\* split_naive: str.split(separator); lines from splitlines() end in no \n or \r
split_naive(line, sep) ==
    LET RECURSIVE go(_, _, _)
        go(k, cur, acc) ==
            IF k > Len(line) THEN Append(acc, cur)
            ELSE IF line[k] = sep THEN go(k + 1, <<>>, Append(acc, cur))
            ELSE go(k + 1, Append(cur, line[k]), acc)
    IN go(1, <<>>, <<>>)

\* separator.join(fields)
RECURSIVE SepJoin(_, _)
SepJoin(fields, sep) ==
    IF Len(fields) = 0 THEN <<>>
    ELSE IF Len(fields) = 1 THEN fields[1]
    ELSE fields[1] \o <<sep>> \o SepJoin(Tail(fields), sep)

\* str.strip()
RECURSIVE Strip(_)
Strip(s) ==
    IF Len(s) = 0 THEN s
    ELSE IF s[1] = Blank THEN Strip(Tail(s))
    ELSE IF s[Len(s)] = Blank THEN Strip(SubSeq(s, 1, Len(s) - 1))
    ELSE s

\* str.lower() on the symbols that occur in headers
LowerSym(c) ==
    CASE c = "NomeProduto" -> "nomeproduto"
      [] c = "Nome" -> "nome"
      [] c = "Setor" -> "setor"
      [] c = "Tipo" -> "tipo"
      [] OTHER -> c

Lower(s) == [k \in DOMAIN s |-> LowerSym(s[k])]

\* Python slice s[a:b] with 0-based, clamped bounds
PySlice(s, a, b) == SubSeq(s, Min(a, Len(s)) + 1, Min(b, Len(s)))

\* [""] * n
Empties(n) == [k \in 1..Max(n, 0) |-> <<>>]

TextCandidates ==
    << <<"nomeproduto">>, <<"nome", Blank, "material">>, <<"nomerevendedora">>,
       <<"nome">>, <<"descricao">>, <<"descrição">> >>

\* find_text_column: index of the first candidate, in candidate order, that
\* equals a lower-cased stripped header name; 0 when none matches.
find_text_column(hdr) ==
    LET header_lower == [k \in DOMAIN hdr |-> Strip(Lower(hdr[k]))]
        hits == {c \in DOMAIN TextCandidates :
                    \E k \in DOMAIN hdr : header_lower[k] = TextCandidates[c]}
    IN IF hits = {} THEN 0
       ELSE LET c == CHOOSE x \in hits : \A y \in hits : x <= y
            IN (CHOOSE k \in DOMAIN hdr :
                    /\ header_lower[k] = TextCandidates[c]
                    /\ \A j \in 1..(k - 1) : header_lower[j] # TextCandidates[c]) - 1

-----------------------------------------------------------------------------
(* csv.writer(delimiter=separator, quotechar='"', QUOTE_MINIMAL) *)

RECURSIVE DoubleQuotes(_)
DoubleQuotes(f) ==
    IF Len(f) = 0 THEN <<>>
    ELSE IF f[1] = Quote THEN <<Quote, Quote>> \o DoubleQuotes(Tail(f))
    ELSE <<f[1]>> \o DoubleQuotes(Tail(f))

\* a field is quoted when it holds the delimiter or the quote character
NeedsQuotes(f, sep) == \E k \in DOMAIN f : f[k] = sep \/ f[k] = Quote

\* mutant of WriteField: fields are written raw, as sep.join would
WriteField_Raw(f, sep) == f

WriteField(f, sep) ==
    IF NeedsQuotes(f, sep) THEN <<Quote>> \o DoubleQuotes(f) \o <<Quote>> ELSE f

\* writer.writerow: a row of one empty field is written as ""
writerow(fields, sep) ==
    IF Len(fields) = 1 /\ fields[1] = <<>> THEN <<Quote, Quote>>
    ELSE SepJoin([k \in DOMAIN fields |-> WriteField(fields[k], sep)], sep)

-----------------------------------------------------------------------------
(* The quote-aware reader the repaired text is read back with             *)
(* (pd.read_csv(sep=separator, quotechar='"', engine="python"), which      *)
(* parses with csv.reader): delimiter sep, quotechar ", doubled quotes.    *)
(* st is the reader's state: "start_field", "in_field", "in_quoted",       *)
(* "quote_in_quoted".                                                      *)

RECURSIVE ReadFrom(_, _, _, _, _, _, _, _)
ReadFrom(out, sep, ln, k, st, field, row, acc) ==
    IF ln > Len(out)
    THEN \* end of the text; an open quoted field is kept as it stands
         IF st = "in_quoted" THEN Append(acc, Append(row, field)) ELSE acc
    ELSE IF k > Len(out[ln])
    THEN \* end of a line
         IF st = "in_quoted"
         THEN ReadFrom(out, sep, ln + 1, 1, st, Append(field, Newline), row, acc)
         ELSE IF k = 1 /\ row = <<>> /\ st = "start_field"
         THEN ReadFrom(out, sep, ln + 1, 1, "start_field", <<>>, <<>>, Append(acc, <<>>))
         ELSE ReadFrom(out, sep, ln + 1, 1, "start_field", <<>>, <<>>,
                       Append(acc, Append(row, field)))
    ELSE LET c == out[ln][k]
         IN CASE st = "start_field" ->
                   IF c = Quote
                   THEN ReadFrom(out, sep, ln, k + 1, "in_quoted", field, row, acc)
                   ELSE IF c = sep
                   THEN ReadFrom(out, sep, ln, k + 1, "start_field", <<>>, Append(row, field), acc)
                   ELSE ReadFrom(out, sep, ln, k + 1, "in_field", Append(field, c), row, acc)
              [] st = "in_field" ->
                   IF c = sep
                   THEN ReadFrom(out, sep, ln, k + 1, "start_field", <<>>, Append(row, field), acc)
                   ELSE ReadFrom(out, sep, ln, k + 1, "in_field", Append(field, c), row, acc)
              [] st = "in_quoted" ->
                   IF c = Quote
                   THEN ReadFrom(out, sep, ln, k + 1, "quote_in_quoted", field, row, acc)
                   ELSE ReadFrom(out, sep, ln, k + 1, "in_quoted", Append(field, c), row, acc)
              [] OTHER ->
                   IF c = Quote
                   THEN ReadFrom(out, sep, ln, k + 1, "in_quoted", Append(field, c), row, acc)
                   ELSE IF c = sep
                   THEN ReadFrom(out, sep, ln, k + 1, "start_field", <<>>, Append(row, field), acc)
                   ELSE ReadFrom(out, sep, ln, k + 1, "in_field", Append(field, c), row, acc)

\* the rows a quote-aware reader gets from the written lines
ReadCsv(out, sep) == ReadFrom(out, sep, 1, 1, "start_field", <<>>, <<>>, <<>>)

-----------------------------------------------------------------------------
(* Inputs *)

Headers ==
    { <<"Setor", "|", "NomeProduto", "|", "Tipo">>,
      <<"NomeProduto", "|", "Setor">>,
      <<"Setor", "|", Blank, "NomeProduto">>,
      <<"Setor", ";", "Tipo">>,
      <<"NomeProduto">> }

\* the text after the header: the separator in use, an ordinary character, the
\* quote character and the line break
BodyAlphabet(hdr) == {detect_sep(hdr), "a", Quote, Newline}

Inputs ==
    {<<>>} \cup
    UNION {{hdr \o <<Newline>> \o body : body \in SeqsUpTo(BodyAlphabet(hdr), MaxTextLen)}
           : hdr \in Headers}

ZeroStats ==
    [total_original_lines |-> 0, data_records_emitted |-> 0,
     joined_broken_records |-> 0, fixed_extra_cols |-> 0,
     fixed_missing_cols |-> 0, unchanged |-> 0]

RepairIdle ==
    /\ pc = "start"
    /\ lines = <<>>
    /\ separator = "None"
    /\ header = <<>>
    /\ expected_cols = 0
    /\ text_col_idx = 0
    /\ i = 0
    /\ start_line_no = 0
    /\ buf = <<>>
    /\ parts = <<>>
    /\ joined = 0
    /\ fixes = <<>>
    /\ stats = ZeroStats
    /\ rows = <<>>
    /\ output = <<>>

InitRepair ==
    /\ text \in Inputs
    /\ RepairIdle

-----------------------------------------------------------------------------
(* fix_broken_csv_bytes, step by step *)

\* lines 83-86: an input with no line raises ValueError
RaiseEmpty ==
    /\ pc = "start"
    /\ splitlines(text) = <<>>
    /\ pc' = "ValueError"
    /\ UNCHANGED <<text, lines, separator, header, expected_cols, text_col_idx, i,
                   start_line_no, buf, parts, joined, fixes, stats, rows, output>>
    /\ UNCHANGED <<ivars, mvars, fvars, evars>>

\* lines 83-136: lines, separator, header, text column, empty report, header row
Setup ==
    /\ pc = "start"
    /\ \E ls \in {splitlines(text)} :
          /\ ls # <<>>
          /\ lines' = ls
          /\ \E sep \in {EscolherSeparador("None", ls[1])} :
             \E hp \in {split_naive(ls[1], sep)} :
             \E hdr \in {[k \in DOMAIN hp |-> Strip(hp[k])]} :
                /\ separator' = sep
                /\ header' = hdr
                /\ expected_cols' = Len(hdr)
                /\ text_col_idx' = find_text_column(hdr)
                /\ rows' = <<hdr>>
                /\ output' = <<writerow(hdr, sep)>>
          /\ stats' = [ZeroStats EXCEPT !.total_original_lines = Len(ls)]
    /\ fixes' = <<>>
    /\ i' = 1
    /\ pc' = "outer"
    /\ UNCHANGED <<text, start_line_no, buf, parts, joined>>
    /\ UNCHANGED <<ivars, mvars, fvars, evars>>

\* mutant of BeginRecord: the start line is the 0-based index of the line
BeginRecord_IndiceZero ==
    /\ pc = "outer"
    /\ i < Len(lines)
    /\ start_line_no' = i
    /\ buf' = lines[i + 1]
    /\ parts' = split_naive(lines[i + 1], separator)
    /\ joined' = 0
    /\ pc' = "inner"
    /\ UNCHANGED <<text, lines, separator, header, expected_cols, text_col_idx, i,
                   fixes, stats, rows, output>>
    /\ UNCHANGED <<ivars, mvars, fvars, evars>>

\* lines 137-143: the outer loop takes the line under the cursor
BeginRecord ==
    /\ pc = "outer"
    /\ i < Len(lines)
    /\ start_line_no' = i + 1
    /\ buf' = lines[i + 1]
    /\ parts' = split_naive(lines[i + 1], separator)
    /\ joined' = 0
    /\ pc' = "inner"
    /\ UNCHANGED <<text, lines, separator, header, expected_cols, text_col_idx, i,
                   fixes, stats, rows, output>>
    /\ UNCHANGED <<ivars, mvars, fvars, evars>>

\* line 147: next_line.startswith(separator)
StartsWithSep(line) == Len(line) > 0 /\ line[1] = separator

\* mutant of CanJoin: a line starting with the separator is joined whatever
\* the field count of the buffer
CanJoin_AnyCount ==
    /\ i + 1 < Len(lines)
    /\ StartsWithSep(lines[i + 2])

\* lines 144-147: the inner loop goes round once more
CanJoin ==
    /\ Len(parts) < expected_cols
    /\ i + 1 < Len(lines)
    /\ StartsWithSep(lines[i + 2])

\* mutant of JoinLine: a separator is put between the buffer and the line
JoinLine_ComSeparador ==
    /\ pc = "inner"
    /\ CanJoin
    /\ buf' = (buf \o <<separator>>) \o lines[i + 2]
    /\ i' = i + 1
    /\ joined' = joined + 1
    /\ parts' = split_naive((buf \o <<separator>>) \o lines[i + 2], separator)
    /\ UNCHANGED <<text, lines, pc, separator, header, expected_cols, text_col_idx,
                   start_line_no, fixes, stats, rows, output>>
    /\ UNCHANGED <<ivars, mvars, fvars, evars>>

\* lines 148-151: one continuation line is appended to the buffer
JoinLine ==
    /\ pc = "inner"
    /\ CanJoin
    /\ buf' = buf \o lines[i + 2]
    /\ i' = i + 1
    /\ joined' = joined + 1
    /\ parts' = split_naive(buf \o lines[i + 2], separator)
    /\ UNCHANGED <<text, lines, pc, separator, header, expected_cols, text_col_idx,
                   start_line_no, fixes, stats, rows, output>>
    /\ UNCHANGED <<ivars, mvars, fvars, evars>>

\* lines 155-162: the "joined" entry of the report
JoinedFix ==
    IF joined > 0
    THEN <<[line_number_start |-> start_line_no, line_number_end |-> i + 1,
            action |-> "joined_continuation_lines", joined_lines_count |-> joined]>>
    ELSE <<>>

JoinedStats ==
    IF joined > 0
    THEN [stats EXCEPT !.joined_broken_records = @ + 1]
    ELSE stats

\* mutant of MergeExtra: only the text column itself is kept, the excess
\* fields fall to the truncation
MergeExtra_SemExcesso(p) ==
    LET left == PySlice(p, 0, text_col_idx)
        merged == SepJoin(PySlice(p, text_col_idx, text_col_idx + 1), separator)
        right == PySlice(p, text_col_idx + 1, Len(p))
    IN PySlice(left \o <<merged>> \o right, 0, expected_cols)

\* lines 178-188: excess fields are merged into the text column
MergeExtra(p) ==
    LET extra == Len(p) - expected_cols
        left == PySlice(p, 0, text_col_idx)
        merged == SepJoin(PySlice(p, text_col_idx, text_col_idx + 1 + extra), separator)
        right == PySlice(p, text_col_idx + 1 + extra, Len(p))
        new_parts == left \o <<merged>> \o right
    IN IF Len(new_parts) > expected_cols THEN PySlice(new_parts, 0, expected_cols)
       ELSE IF Len(new_parts) < expected_cols
            THEN new_parts \o Empties(expected_cols - Len(new_parts))
       ELSE new_parts

\* lines 204-205: missing fields are padded with ""
PadMissing(p) == p \o Empties(expected_cols - Len(p))

\* lines 165-171: the record has the expected field count
EmitUnchanged ==
    /\ pc = "inner"
    /\ ~CanJoin
    /\ Len(parts) = expected_cols
    /\ fixes' = fixes \o JoinedFix
    /\ rows' = Append(rows, parts)
    /\ output' = Append(output, writerow(parts, separator))
    /\ stats' = [JoinedStats EXCEPT !.unchanged = @ + 1,
                                    !.data_records_emitted = @ + 1]
    /\ i' = i + 1
    /\ pc' = "outer"
    /\ UNCHANGED <<text, lines, separator, header, expected_cols, text_col_idx,
                   start_line_no, buf, parts, joined>>
    /\ UNCHANGED <<ivars, mvars, fvars, evars>>

\* lines 174-201: the record has too many fields
EmitMerged ==
    /\ pc = "inner"
    /\ ~CanJoin
    /\ Len(parts) > expected_cols
    /\ \E new_parts \in {MergeExtra(parts)} :
          /\ fixes' = fixes \o JoinedFix \o
                <<[line_number_start |-> start_line_no, line_number_end |-> i + 1,
                   action |-> "merged_extra_columns_into",
                   into |-> header[text_col_idx + 1],
                   original_col_count |-> Len(parts),
                   final_col_count |-> Len(new_parts)]>>
          /\ rows' = Append(rows, new_parts)
          /\ output' = Append(output, writerow(new_parts, separator))
    /\ stats' = [JoinedStats EXCEPT !.fixed_extra_cols = @ + 1,
                                    !.data_records_emitted = @ + 1]
    /\ i' = i + 1
    /\ pc' = "outer"
    /\ UNCHANGED <<text, lines, separator, header, expected_cols, text_col_idx,
                   start_line_no, buf, parts, joined>>
    /\ UNCHANGED <<ivars, mvars, fvars, evars>>

\* mutant of EmitPadded: a short record is skipped, not padded
EmitPadded_Skip ==
    /\ pc = "inner"
    /\ ~CanJoin
    /\ Len(parts) < expected_cols
    /\ i' = i + 1
    /\ pc' = "outer"
    /\ UNCHANGED <<text, lines, separator, header, expected_cols, text_col_idx,
                   start_line_no, buf, parts, joined, fixes, stats, rows, output>>
    /\ UNCHANGED <<ivars, mvars, fvars, evars>>

\* lines 204-217: the record has too few fields
EmitPadded ==
    /\ pc = "inner"
    /\ ~CanJoin
    /\ Len(parts) < expected_cols
    /\ LET new_parts == PadMissing(parts)
       IN /\ fixes' = fixes \o JoinedFix \o
                <<[line_number_start |-> start_line_no, line_number_end |-> i + 1,
                   action |-> "padded_missing_columns",
                   original_col_count |-> Len(parts),
                   final_col_count |-> Len(new_parts)]>>
          /\ rows' = Append(rows, new_parts)
          /\ output' = Append(output, writerow(new_parts, separator))
    /\ stats' = [JoinedStats EXCEPT !.fixed_missing_cols = @ + 1,
                                    !.data_records_emitted = @ + 1]
    /\ i' = i + 1
    /\ pc' = "outer"
    /\ UNCHANGED <<text, lines, separator, header, expected_cols, text_col_idx,
                   start_line_no, buf, parts, joined>>
    /\ UNCHANGED <<ivars, mvars, fvars, evars>>

\* mutant of Return: the loop condition never fails
Return_Nunca ==
    /\ pc = "outer"
    /\ i > Len(lines)
    /\ pc' = "done"
    /\ UNCHANGED <<text, lines, separator, header, expected_cols, text_col_idx, i,
                   start_line_no, buf, parts, joined, fixes, stats, rows, output>>
    /\ UNCHANGED <<ivars, mvars, fvars, evars>>

\* lines 137, 219-223: the cursor is past the last line, the function returns
Return ==
    /\ pc = "outer"
    /\ i >= Len(lines)
    /\ pc' = "done"
    /\ UNCHANGED <<text, lines, separator, header, expected_cols, text_col_idx, i,
                   start_line_no, buf, parts, joined, fixes, stats, rows, output>>
    /\ UNCHANGED <<ivars, mvars, fvars, evars>>

NextRepair ==
    \/ RaiseEmpty
    \/ Setup
    \/ BeginRecord
    \/ JoinLine
    \/ EmitUnchanged
    \/ EmitMerged
    \/ EmitPadded
    \/ Return


-----------------------------------------------------------------------------
(* Properties of the repair parser *)

\* the symbols of s other than the separator, in order
RECURSIVE NonSep(_, _)
NonSep(s, sep) ==
    IF Len(s) = 0 THEN <<>>
    ELSE IF s[1] = sep THEN NonSep(Tail(s), sep)
    ELSE <<s[1]>> \o NonSep(Tail(s), sep)

RECURSIVE SumJoined(_)
SumJoined(fx) ==
    IF Len(fx) = 0 THEN 0
    ELSE (IF fx[1].action = "joined_continuation_lines" THEN fx[1].joined_lines_count ELSE 0)
         + SumJoined(Tail(fx))

BetweenRecords == pc \in {"outer", "done"}

\* C1 (no-loss): whenever the parser stands between two records, the records
\* emitted so far are exactly the rows written (one output line each); every
\* data line before the cursor went into exactly one of them, as its starting
\* line or as a joined continuation line; the text of those lines, separators
\* aside, is the text of the written fields in the same order; and on return
\* the cursor has passed every line.
C1_NoLoss ==
    BetweenRecords =>
        /\ stats.data_records_emitted = Len(rows) - 1
        /\ Len(output) = Len(rows)
        /\ i - 1 = stats.data_records_emitted + SumJoined(fixes)
        /\ NonSep(Flatten(SubSeq(lines, 2, i)), separator)
             = NonSep(Flatten(Flatten(Tail(rows))), separator)
        /\ (pc = "done" => i = Len(lines))

\* a run that joined a continuation line and emitted at least two records
C1_Witness ==
    /\ pc = "done"
    /\ stats.data_records_emitted >= 2
    /\ SumJoined(fixes) >= 1

\* C2 (field count): every row handed to the writer has expected_cols fields,
\* and reading the written text back with a quote-aware reader gives as many
\* rows as were written, each with expected_cols fields and the fields written.
C2_FieldCount ==
    pc \in {"outer", "inner", "done"} =>
        /\ \A k \in DOMAIN rows : Len(rows[k]) = expected_cols
        /\ LET back == ReadCsv(output, separator)
           IN /\ Len(back) = Len(rows)
              /\ \A k \in DOMAIN back : Len(back[k]) = expected_cols
              /\ back = rows

\* a finished run that wrote a merged and a padded row, one of them with a
\* quoted field
C2_Witness ==
    /\ pc = "done"
    /\ stats.fixed_extra_cols >= 1
    /\ stats.fixed_missing_cols >= 1
    /\ \E k \in DOMAIN output : Quote \in {output[k][j] : j \in DOMAIN output[k]}

\* the input is well formed: every data line splits into len(header) fields
WellFormed ==
    LET ls == splitlines(text)
    IN /\ ls # <<>>
       /\ LET sep == detect_sep(ls[1])
              n == Len(split_naive(ls[1], sep))
          IN \A k \in 2..Len(ls) : Len(split_naive(ls[k], sep)) = n

\* C10 (idempotence on well-formed input): on a well-formed input no line is
\* ever joined and no fix recorded, and on return the rows written after the
\* header are the data lines split by the separator, in order, all counted
\* as unchanged.
C10_WellFormedUnchanged ==
    (WellFormed /\ pc # "start") =>
        /\ joined = 0
        /\ fixes = <<>>
        /\ stats.joined_broken_records = 0
        /\ stats.fixed_extra_cols = 0
        /\ stats.fixed_missing_cols = 0
        /\ stats.unchanged = stats.data_records_emitted
        /\ (pc = "done" =>
              /\ stats.data_records_emitted = Len(lines) - 1
              /\ Tail(rows) = [k \in 1..(Len(lines) - 1) |-> split_naive(lines[k + 1], separator)]
              /\ ReadCsv(output, separator) = rows)

\* a well-formed input of three data lines, one of them starting with the
\* separator, read to the end
C10_Witness ==
    /\ WellFormed
    /\ pc = "done"
    /\ Len(lines) >= 4
    /\ \E k \in 2..Len(lines) : StartsWithSep(lines[k])
    /\ expected_cols >= 2

\* the three conditions of a join, on the buffer and the line after the cursor
BufferCurto == Len(split_naive(buf, separator)) < expected_cols

HaProximaLinha == i + 2 <= Len(lines)

ProximaComecaComSeparador == lines[i + 2] # <<>> /\ Head(lines[i + 2]) = separator

\* C20: while a record is processed, the next raw line is appended to the
\* buffer, nothing put between them, and the cursor advanced iff the buffer
\* splits into fewer than expected_cols fields, a next line exists and it
\* begins with the separator; otherwise joining stops and the record is
\* written; and the line under the cursor after a written record starts its
\* own record, whatever its first character.
C20_JoinRule ==
    [][/\ pc = "inner" =>
             IF BufferCurto /\ HaProximaLinha /\ ProximaComecaComSeparador
             THEN /\ buf' = buf \o lines[i + 2]
                  /\ i' = i + 1
                  /\ pc' = "inner"
                  /\ rows' = rows
             ELSE /\ pc' = "outer"
                  /\ i' = i + 1
                  /\ buf' = buf
                  /\ Len(rows') = Len(rows) + 1
       /\ (pc = "outer" /\ i < Len(lines)) =>
             /\ buf' = lines[i + 1]
             /\ i' = i
             /\ pc' = "inner"]_vars

\* a line has been joined onto the record; the next line also begins with
\* the separator, but the buffer is at the expected field count
C20_Witness ==
    /\ pc = "inner"
    /\ joined >= 1
    /\ ~BufferCurto
    /\ HaProximaLinha
    /\ ProximaComecaComSeparador

-----------------------------------------------------------------------------
(* The excess-field merge *)

\* the record emitted last had more fields than the header
UltimoFoiExcesso ==
    /\ BetweenRecords
    /\ Len(rows) > 1
    /\ Len(parts) > expected_cols

\* lines 178-182 without the defensive truncate/pad of lines 185-188
MergeSemDefesa(p) ==
    LET extra == Len(p) - expected_cols
    IN PySlice(p, 0, text_col_idx)
       \o <<SepJoin(PySlice(p, text_col_idx, text_col_idx + 1 + extra), separator)>>
       \o PySlice(p, text_col_idx + 1 + extra, Len(p))

\* C21 (excess-field merge): when the record emitted last split into
\* expected_cols + k fields, k >= 1, and the text column has index t, the
\* emitted row has fields 0..t-1 equal to input fields 0..t-1, field t equal
\* to input fields t..t+k joined with the separator, fields t+1.. equal to
\* input fields t+k+1..; the emitted fields joined with the separator give
\* back the record, and the truncate/pad step did not change the row.
C21_ExcessMerge ==
    UltimoFoiExcesso =>
        LET row == rows[Len(rows)]
            k == Len(parts) - expected_cols
            t == text_col_idx
        IN /\ Len(row) = expected_cols
           /\ \A j \in 1..t : row[j] = parts[j]
           /\ row[t + 1] = SepJoin(SubSeq(parts, t + 1, t + 1 + k), separator)
           /\ \A j \in (t + 2)..expected_cols : row[j] = parts[j + k]
           /\ SepJoin(row, separator) = buf
           /\ row = MergeSemDefesa(parts)

\* an excess record was merged into a text column that has a column on each
\* side of it
C21_Witness ==
    /\ UltimoFoiExcesso
    /\ text_col_idx > 0
    /\ text_col_idx + 1 < expected_cols
    /\ rows[Len(rows)][text_col_idx + 1] # <<>>

-----------------------------------------------------------------------------
(* The line spans of report.fixes *)

EhJuncao(f) == f.action = "joined_continuation_lines"

\* C23 (fix line spans): every entry of report.fixes has
\* 2 <= line_number_start <= line_number_end <= total_original_lines; a
\* joined fix has line_number_end - line_number_start = joined_lines_count
\* >= 1; the entries stand in non-decreasing line_number_start order, and the
\* spans of two entries of different records (different start lines) do not
\* overlap.
C23_FixSpans ==
    \A a \in DOMAIN fixes :
        /\ 2 <= fixes[a].line_number_start
        /\ fixes[a].line_number_start <= fixes[a].line_number_end
        /\ fixes[a].line_number_end <= stats.total_original_lines
        /\ EhJuncao(fixes[a]) =>
              /\ fixes[a].line_number_end - fixes[a].line_number_start
                   = fixes[a].joined_lines_count
              /\ fixes[a].joined_lines_count >= 1
        /\ \A b \in DOMAIN fixes :
              a < b =>
                 /\ fixes[a].line_number_start <= fixes[b].line_number_start
                 /\ fixes[a].line_number_start # fixes[b].line_number_start
                      => fixes[a].line_number_end < fixes[b].line_number_start

\* a joined record followed by a fixed record on a later line, the last fix
\* ending on the last line of the input
C23_Witness ==
    /\ pc = "done"
    /\ \E a, b \in DOMAIN fixes :
          /\ a < b
          /\ EhJuncao(fixes[a])
          /\ ~EhJuncao(fixes[b])
          /\ fixes[b].line_number_start > fixes[a].line_number_end
    /\ \E a \in DOMAIN fixes : fixes[a].line_number_end = stats.total_original_lines

-----------------------------------------------------------------------------
(* Termination of the repair loop *)

TemLinha == splitlines(text) # <<>>

\* one pass of the outer loop ends: the cursor is past the line the pass
\* started on and one row more is written
PassoExterno ==
    (pc = "inner" /\ pc' = "outer") =>
        /\ i' = i + 1
        /\ i' >= start_line_no
        /\ Len(rows') = Len(rows) + 1
        /\ stats'.data_records_emitted = stats.data_records_emitted + 1

\* one round of the inner loop: one line joined, the cursor one further
PassoInterno ==
    (pc = "inner" /\ pc' = "inner") =>
        /\ i' = i + 1
        /\ joined' = joined + 1

\* C24 (termination): for every input with at least a header line the repair
\* loop ends with a table and a report; every pass of the outer loop strictly
\* advances the line cursor and emits exactly one record, the inner join loop
\* advances the cursor by one per joined line, and on exit the cursor equals
\* the number of lines.  An input with no line raises ValueError and gives
\* no table.
C24_Termination ==
    /\ [][PassoExterno /\ PassoInterno]_vars
    /\ [](pc = "done" => (TemLinha /\ i = Len(lines) /\ Len(rows) >= 1))
    /\ [](pc = "ValueError" => (~TemLinha /\ rows = <<>> /\ output = <<>>))
    /\ (TemLinha ~> pc = "done")
    /\ (~TemLinha ~> pc = "ValueError")

\* the loop has ended on an input of four lines, one of them joined
C24_Witness ==
    /\ pc = "done"
    /\ Len(lines) = 4
    /\ i = 4
    /\ stats.joined_broken_records = 1

-----------------------------------------------------------------------------
(* The counters of the report *)

\* the start lines of the records that have an entry in report.fixes
RegistrosComFix == {fixes[a].line_number_start : a \in DOMAIN fixes}

\* C25 (counter partition): the report counters classify each emitted record
\* exactly once, joined_broken_records + fixed_extra_cols + fixed_missing_cols
\* + unchanged = data_records_emitted, and a record counted as unchanged has
\* no entry in report.fixes: the unchanged records are among the emitted
\* records without an entry.
C25_CounterPartition ==
    BetweenRecords =>
        /\ stats.joined_broken_records + stats.fixed_extra_cols
             + stats.fixed_missing_cols + stats.unchanged
             = stats.data_records_emitted
        /\ stats.unchanged <= stats.data_records_emitted - Cardinality(RegistrosComFix)

\* one record, rebuilt from two lines to the expected field count: it is
\* counted as joined and as unchanged, and has an entry in report.fixes
C25_Witness ==
    /\ pc = "done"
    /\ stats.data_records_emitted = 1
    /\ stats.joined_broken_records = 1
    /\ stats.unchanged = 1
    /\ Len(fixes) = 1

-----------------------------------------------------------------------------
(* SKU index and resolver, src/src/io.py.  A normalized code is a sequence *)
(* of digits.                                                              *)

MOTIVO_NAO_ENCONTRADO == "NAO_ENCONTRADO"
MOTIVO_MATCH_COM_ZERO == "MATCH_COM_ZERO"
MOTIVO_MATCH_EXATO == "MATCH_EXATO"
MARCA_DESCONHECIDA == "DESCONHECIDA"

\* Python None, and a missing cell (NaN) of a text column
None == "None"
NaN == "NaN"

EmptyDict == [k \in {} |-> None]

\* mutant of DictPut: an entry already under the key is kept
DictPut_PrimeiroVence(d, key, entry) ==
    [k \in (DOMAIN d) \cup {key} |-> IF k \in DOMAIN d THEN d[k] ELSE entry]

\* indice[key] = entry
DictPut(d, key, entry) ==
    [k \in (DOMAIN d) \cup {key} |-> IF k = key THEN entry ELSE d[k]]

\* mutant of IndexarLinha: the alias is written without looking whether the
\* 4-digit key is already taken
IndexarLinha_AliasSobrescreve(ind, row) ==
    LET sku == row.SKU_normalizado
        real == DictPut(ind, sku, [marca |-> row.Marca, nome |-> row.Nome])
    IN IF sku = <<>> THEN ind
       ELSE IF Len(sku) = 5 /\ sku[1] = 0
            THEN DictPut(real, Tail(sku),
                         [marca |-> row.Marca, nome |-> row.Nome, original_sku |-> sku])
       ELSE real

\* mutant of IndexarLinha: no alias is written for a 0-prefixed 5-digit code
IndexarLinha_SemAlias(ind, row) ==
    LET sku == row.SKU_normalizado
    IN IF sku = <<>> THEN ind
       ELSE DictPut(ind, sku, [marca |-> row.Marca, nome |-> row.Nome])

\* lines 524-541: one iteration of the loop of criar_indice_sku
IndexarLinha(ind, row) ==
    LET sku == row.SKU_normalizado
        real == DictPut(ind, sku, [marca |-> row.Marca, nome |-> row.Nome])
        sku_sem_zero == Tail(sku)
    IN IF sku = <<>> THEN ind
       ELSE IF Len(sku) = 5 /\ sku[1] = 0 /\ sku_sem_zero \notin DOMAIN real
            THEN DictPut(real, sku_sem_zero,
                         [marca |-> row.Marca, nome |-> row.Nome, original_sku |-> sku])
       ELSE real

\* criar_indice_sku: the loop over the whole catalog, from an empty dict
RECURSIVE IndexarDesde(_, _, _)
IndexarDesde(ind, df, k) ==
    IF k > Len(df) THEN ind ELSE IndexarDesde(IndexarLinha(ind, df[k]), df, k + 1)

criar_indice_sku(df) == IndexarDesde(EmptyDict, df, 1)

NaoEncontrado == [marca |-> None, nome |-> None, motivo |-> MOTIVO_NAO_ENCONTRADO]

\* mutant of buscar_sku: a code that is no key is also tried without its first
\* character
buscar_sku_Encurta(codigo_produto, indice_sku) ==
    IF codigo_produto = <<>> THEN NaoEncontrado
    ELSE IF codigo_produto \in DOMAIN indice_sku
    THEN [marca |-> indice_sku[codigo_produto].marca,
          nome |-> indice_sku[codigo_produto].nome,
          motivo |-> MOTIVO_MATCH_EXATO]
    ELSE IF Len(codigo_produto) = 4 /\ (<<0>> \o codigo_produto) \in DOMAIN indice_sku
    THEN [marca |-> indice_sku[<<0>> \o codigo_produto].marca,
          nome |-> indice_sku[<<0>> \o codigo_produto].nome,
          motivo |-> MOTIVO_MATCH_COM_ZERO]
    ELSE IF Tail(codigo_produto) \in DOMAIN indice_sku
    THEN [marca |-> indice_sku[Tail(codigo_produto)].marca,
          nome |-> indice_sku[Tail(codigo_produto)].nome,
          motivo |-> MOTIVO_MATCH_COM_ZERO]
    ELSE NaoEncontrado

\* buscar_sku: (marca, nome, motivo_match)
buscar_sku(codigo_produto, indice_sku) ==
    IF codigo_produto = <<>> THEN NaoEncontrado
    ELSE IF codigo_produto \in DOMAIN indice_sku
    THEN [marca |-> indice_sku[codigo_produto].marca,
          nome |-> indice_sku[codigo_produto].nome,
          motivo |-> MOTIVO_MATCH_EXATO]
    ELSE IF Len(codigo_produto) = 4 /\ (<<0>> \o codigo_produto) \in DOMAIN indice_sku
    THEN [marca |-> indice_sku[<<0>> \o codigo_produto].marca,
          nome |-> indice_sku[<<0>> \o codigo_produto].nome,
          motivo |-> MOTIVO_MATCH_COM_ZERO]
    ELSE NaoEncontrado

(* Inputs of the index *)

\* catalog codes: a 5-digit code starting with 0, its 4-digit suffix, another
\* 5-digit code with the same suffix, a 4-digit code starting with 0, no code
SkusCatalogo == {<<0, 1, 2, 3, 4>>, <<1, 2, 3, 4>>, <<1, 1, 2, 3, 4>>, <<0, 1, 2, 3>>, <<>>}

Produtos == {[Marca |-> "Eudora", Nome |-> "Colonia"], [Marca |-> "AuAmigos", Nome |-> "Shampoo"]}

LinhasCatalogo ==
    {[SKU_normalizado |-> s, Marca |-> p.Marca, Nome |-> p.Nome] : s \in SkusCatalogo, p \in Produtos}

Catalogos == SeqsUpTo(LinhasCatalogo, MaxCatalogo)

\* sales codes looked up: the catalog codes, plus a 3-digit and an unknown code
Consultas == SkusCatalogo \cup {<<1, 2, 3>>, <<9, 9, 9, 9>>}

IndiceIdle ==
    /\ df_bd = <<>>
    /\ ipc = "idle"
    /\ bd_pos = 0
    /\ indice = EmptyDict
    /\ consulta = None
    /\ resultado = None

InitIndice ==
    /\ df_bd \in Catalogos
    /\ ipc = "build"
    /\ bd_pos = 0
    /\ indice = EmptyDict
    /\ consulta = None
    /\ resultado = None

\* lines 523-541: the loop of criar_indice_sku takes the next catalog row
Indexar ==
    /\ ipc = "build"
    /\ bd_pos < Len(df_bd)
    /\ indice' = IndexarLinha(indice, df_bd[bd_pos + 1])
    /\ bd_pos' = bd_pos + 1
    /\ UNCHANGED <<df_bd, ipc, consulta, resultado>>
    /\ UNCHANGED <<rvars, mvars, fvars, evars>>

\* line 543: return indice
RetornarIndice ==
    /\ ipc = "build"
    /\ bd_pos = Len(df_bd)
    /\ ipc' = "ready"
    /\ UNCHANGED <<df_bd, bd_pos, indice, consulta, resultado>>
    /\ UNCHANGED <<rvars, mvars, fvars, evars>>

\* buscar_sku(codigo, indice) against the returned index
Buscar ==
    /\ ipc \in {"ready", "resolved"}
    /\ \E codigo \in Consultas :
          /\ consulta' = codigo
          /\ resultado' = buscar_sku(codigo, indice)
    /\ ipc' = "resolved"
    /\ UNCHANGED <<df_bd, bd_pos, indice>>
    /\ UNCHANGED <<rvars, mvars, fvars, evars>>

NextIndice ==
    \/ Indexar
    \/ RetornarIndice
    \/ Buscar

-----------------------------------------------------------------------------
(* Properties of the index and the resolver *)

\* the codes of the catalog rows (real codes, as opposed to aliases)
CodigosReais == {df_bd[k].SKU_normalizado : k \in DOMAIN df_bd} \ {<<>>}

\* the last catalog row, among the first n, that carries code c
UltimaLinha(c, n) ==
    LET ks == {k \in 1..n : df_bd[k].SKU_normalizado = c}
    IN df_bd[CHOOSE k \in ks : \A j \in ks : j <= k]

Buscou == ipc = "resolved"

\* C4 (zero-prefix fallback), as claimed: a 4-character sales code that is no
\* catalog code, but whose 0-prefixed form is one, resolves with reason
\* MATCH_COM_ZERO and the brand of the 0-prefixed entry.
C4_ZeroPrefixReason ==
    (/\ Buscou
     /\ Len(consulta) = 4
     /\ consulta \notin CodigosReais
     /\ (<<0>> \o consulta) \in CodigosReais)
    => /\ resultado.motivo = MOTIVO_MATCH_COM_ZERO
       /\ resultado.marca = UltimaLinha(<<0>> \o consulta, Len(df_bd)).Marca

\* the case of the claim: the only catalog code is 01234, the sales code 1234
C4_Witness ==
    /\ Buscou
    /\ CodigosReais = {<<0, 1, 2, 3, 4>>}
    /\ consulta = <<1, 2, 3, 4>>

\* C5 (real entries win): at every point of the build and after it, a 4-digit
\* code carried by a catalog row already indexed has, under its own key, the
\* brand and name of the last such row and no alias mark, wherever the rows
\* with the 0-prefixed code stand; and resolving it gives MATCH_EXATO with
\* that brand and name.
C5_RealEntryWins ==
    /\ \A k \in 1..bd_pos :
          LET c == df_bd[k].SKU_normalizado
          IN Len(c) = 4 =>
                /\ c \in DOMAIN indice
                /\ indice[c] = [marca |-> UltimaLinha(c, bd_pos).Marca,
                                nome |-> UltimaLinha(c, bd_pos).Nome]
    /\ (Buscou /\ Len(consulta) = 4 /\ consulta \in CodigosReais) =>
          resultado = [marca |-> UltimaLinha(consulta, Len(df_bd)).Marca,
                       nome |-> UltimaLinha(consulta, Len(df_bd)).Nome,
                       motivo |-> MOTIVO_MATCH_EXATO]

\* 1234 is a real code and 01234, with another brand, comes after it in the
\* catalog; 1234 has been resolved
C5_Witness ==
    /\ Buscou
    /\ consulta = <<1, 2, 3, 4>>
    /\ \E j, k \in DOMAIN df_bd :
          /\ j < k
          /\ df_bd[j].SKU_normalizado = <<1, 2, 3, 4>>
          /\ df_bd[k].SKU_normalizado = <<0, 1, 2, 3, 4>>
          /\ df_bd[j].Marca # df_bd[k].Marca
          /\ resultado.marca = df_bd[j].Marca

\* C6 (never shortened): a code that is no key of the index and has not exactly
\* 4 characters resolves to NAO_ENCONTRADO with no brand and no name, whatever
\* its suffix; so does the empty code.
C6_NeverShortened ==
    Buscou =>
        /\ (consulta \notin DOMAIN indice /\ Len(consulta) # 4) => resultado = NaoEncontrado
        /\ consulta = <<>> => resultado = NaoEncontrado

\* 11234 is resolved against an index that holds its suffix 1234 but not 11234
C6_Witness ==
    /\ Buscou
    /\ consulta = <<1, 1, 2, 3, 4>>
    /\ consulta \notin DOMAIN indice
    /\ <<1, 2, 3, 4>> \in DOMAIN indice
    /\ resultado = NaoEncontrado

\* the codes carried by several catalog rows
CodigosRepetidos ==
    {c \in CodigosReais : Cardinality({k \in DOMAIN df_bd : df_bd[k].SKU_normalizado = c}) > 1}

\* C18: when several catalog rows share one normalized code the build of the
\* index does not fail (it always has a next step until it returns), and the
\* returned index holds under that code the brand and name of the last such
\* row in catalog order, for every order of the rows.
C18_DuplicatesLastWins ==
    /\ ipc = "build" => ENABLED (Indexar \/ RetornarIndice)
    /\ ipc \in {"ready", "resolved"} =>
          \A c \in CodigosRepetidos :
              /\ c \in DOMAIN indice
              /\ indice[c].marca = UltimaLinha(c, Len(df_bd)).Marca
              /\ indice[c].nome = UltimaLinha(c, Len(df_bd)).Nome

\* two rows with one code and different brands; the index holds the second
C18_Witness ==
    /\ ipc = "ready"
    /\ \E j, k \in DOMAIN df_bd :
          /\ j < k
          /\ df_bd[j].SKU_normalizado = df_bd[k].SKU_normalizado
          /\ df_bd[j].SKU_normalizado \in CodigosRepetidos
          /\ df_bd[j].Marca # df_bd[k].Marca
          /\ \A n \in (k + 1)..Len(df_bd) : df_bd[n].SKU_normalizado # df_bd[k].SKU_normalizado
          /\ indice[df_bd[k].SKU_normalizado].marca = df_bd[k].Marca

(* normalizar_sku.  A scalar is a record: tipo tells whether it is a string, *)
(* an int, a float with no fractional part, None or NaN; txt is the string   *)
(* itself and, for a number, the digits of its integer value.                *)

DigitChars == {"0", "1", "2", "3", "4", "5", "6", "7", "8", "9"}

\* pd.isna(valor)
pd_isna(valor) == valor.tipo \in {"None", "NaN"}

\* str(valor)
StrValor(valor) ==
    IF valor.tipo = "float" THEN valor.txt \o <<".", "0">> ELSE valor.txt

\* re.sub(r'[^\d]', '', valor_str)
RECURSIVE SoDigitos(_)
SoDigitos(s) ==
    IF Len(s) = 0 THEN <<>>
    ELSE (IF Head(s) \in DigitChars THEN <<Head(s)>> ELSE <<>>) \o SoDigitos(Tail(s))

\* int(...) and back: leading zeros are lost
RECURSIVE SemZeros(_)
SemZeros(s) == IF Len(s) > 1 /\ Head(s) = "0" THEN SemZeros(Tail(s)) ELSE s

\* mutant of normalizar_sku: the code is converted to a number
normalizar_sku_ComoInteiro(valor) ==
    IF pd_isna(valor) THEN <<>> ELSE SemZeros(SoDigitos(Strip(StrValor(valor))))

\* normalizar_sku
normalizar_sku(valor) ==
    IF pd_isna(valor) THEN <<>> ELSE SoDigitos(Strip(StrValor(valor)))

\* a digit character and the number the model writes for it in a
\* normalized code
DigitSeq == <<"0", "1", "2", "3", "4", "5", "6", "7", "8", "9">>

DigitVal(c) == (CHOOSE k \in 1..10 : DigitSeq[k] = c) - 1

Codigo(chars) == [k \in DOMAIN chars |-> DigitVal(chars[k])]

Algarismos(codigo) == [k \in DOMAIN codigo |-> DigitSeq[codigo[k] + 1]]


(* The index as a whole *)

IndiceRetornado == ipc \in {"ready", "resolved"}

ComecaComZero(k) == Len(k) = 5 /\ k[1] = 0

\* the entry was written by lines 536-540 (it carries _original_sku)
EhAlias(entry) == "original_sku" \in DOMAIN entry

\* C26 (index closure): in every index returned by criar_indice_sku, a
\* 5-character key starting with 0 has its 4-character suffix as a key too;
\* so a 4-character code whose 0-prefixed form is a key is found by the
\* exact lookup of buscar_sku.
C26_IndexClosure ==
    /\ IndiceRetornado =>
          \A k \in DOMAIN indice : ComecaComZero(k) => Tail(k) \in DOMAIN indice
    /\ (Buscou /\ Len(consulta) = 4 /\ (<<0>> \o consulta) \in DOMAIN indice) =>
          /\ consulta \in DOMAIN indice
          /\ resultado.motivo = MOTIVO_MATCH_EXATO
          /\ resultado.marca = indice[consulta].marca

\* 1234 is no catalog code of its own, 01234 is one: the lookup of 1234 hit
\* the alias
C26_Witness ==
    /\ Buscou
    /\ consulta = <<1, 2, 3, 4>>
    /\ <<0, 1, 2, 3, 4>> \in DOMAIN indice
    /\ EhAlias(indice[consulta])
    /\ Len(df_bd) >= 2

\* C27 (alias consistency): in every index returned by criar_indice_sku, an
\* alias entry has the brand and the name of the index entry of the 5-digit
\* code it was derived from.
C27_AliasConsistency ==
    IndiceRetornado =>
        \A k \in DOMAIN indice :
            EhAlias(indice[k]) =>
                /\ indice[k].original_sku \in DOMAIN indice
                /\ indice[k].marca = indice[indice[k].original_sku].marca
                /\ indice[k].nome = indice[indice[k].original_sku].nome

\* the catalog lists 01234 twice, as Eudora and then as AuAmigos: the alias
\* 1234 holds Eudora, the entry 01234 holds AuAmigos
C27_Witness ==
    /\ IndiceRetornado
    /\ Len(df_bd) = 2
    /\ df_bd[1].SKU_normalizado = <<0, 1, 2, 3, 4>>
    /\ df_bd[2].SKU_normalizado = <<0, 1, 2, 3, 4>>
    /\ indice[<<1, 2, 3, 4>>].marca = "Eudora"
    /\ indice[<<0, 1, 2, 3, 4>>].marca = "AuAmigos"

-----------------------------------------------------------------------------
(* Enrichment and aggregation, src/src/transform.py.  A text cell that the *)
(* code looks into (sector, customer name, customer code) is a sequence of *)
(* symbols, a missing one the sequence <<NaN>>; brands, product names and  *)
(* record types are single values.  A numeric cell is a number when the    *)
(* file was read as a spreadsheet and, when it was read as CSV             *)
(* (dtype=str, io.py:317 and 354), the string of its decimal digits.       *)

TIPO_VENDA == "Venda"

\* ALERTA_SKU_NAO_ENCONTRADO_PERCENT = 0.05, in per cent
ALERTA_SKU_NAO_ENCONTRADO_PERCENT == 5

NaNCell == <<NaN>>

\* pd.isna / pd.notna
isna(cell) == cell = NaNCell

\* str(cell), f"{cell}"
Str(cell) == IF isna(cell) THEN <<"nan">> ELSE cell

\* decimal digits of a number, and back
RECURSIVE Digits(_)
Digits(n) == IF n < 10 THEN <<n>> ELSE Append(Digits(n \div 10), n % 10)

RECURSIVE ToNat(_)
ToNat(d) == IF Len(d) = 0 THEN 0 ELSE 10 * ToNat(SubSeq(d, 1, Len(d) - 1)) + d[Len(d)]

RECURSIVE SumSeq(_)
SumSeq(ns) == IF Len(ns) = 0 THEN 0 ELSE ns[1] + SumSeq(Tail(ns))

\* a numeric cell as ler_arquivo delivers it
Celula(n, src) == IF src = "csv" THEN Digits(n) ELSE n

\* pandas 'sum' over a column: numbers add up, strings are concatenated
PandasSum(cells, src) == IF src = "csv" THEN Flatten(cells) ELSE SumSeq(cells)

\* mutant of gerar_id_cliente: the code is never used
gerar_id_cliente_NomeSetor(row) ==
    Str(row.NomeRevendedora) \o <<"|">> \o Str(row.Setor)

\* gerar_id_cliente
gerar_id_cliente(row) ==
    LET codigo == row.CodigoRevendedora
    IN IF ~isna(codigo) /\ Strip(Str(codigo)) # <<>>
       THEN Strip(Str(codigo))
       ELSE Str(row.NomeRevendedora) \o <<"|">> \o Str(row.Setor)

\* Python truth of a brand or name: None and "" are false, NaN is true
Truthy(v) == v # None /\ v # ""

\* lines 79-96: one row of the enriched table
EnriquecerLinha(row, indice_sku) ==
    LET r == buscar_sku(row.CodigoProduto_normalizado, indice_sku)
    IN [CicloFaturamento |-> row.CicloFaturamento,
        Setor |-> row.Setor,
        NomeRevendedora |-> row.NomeRevendedora,
        CodigoRevendedora |-> row.CodigoRevendedora,
        CodigoProduto |-> row.CodigoProduto,
        CodigoProduto_normalizado |-> row.CodigoProduto_normalizado,
        NomeProduto |-> row.NomeProduto,
        Tipo |-> row.Tipo,
        QuantidadeItens |-> row.QuantidadeItens,
        ValorPraticado |-> row.ValorPraticado,
        Marca_BD |-> IF Truthy(r.marca) THEN r.marca ELSE MARCA_DESCONHECIDA,
        Nome_BD |-> IF Truthy(r.nome) THEN r.nome ELSE row.NomeProduto,
        Motivo_Match |-> r.motivo,
        ClienteID |-> gerar_id_cliente(row)]

\* len(df[cond])
CountRows(df, Cond(_)) == Cardinality({k \in DOMAIN df : Cond(df[k])})

\* mutant of AvisosEnriquecimento: the alert is given from 5% on
AvisosEnriquecimento_DesdeLimite(df) ==
    LET total_vendas == CountRows(df, LAMBDA r : r.Tipo = TIPO_VENDA)
        nao_encontrados ==
            CountRows(df, LAMBDA r : r.Tipo = TIPO_VENDA /\ r.Motivo_Match = MOTIVO_NAO_ENCONTRADO)
        match_zero == CountRows(df, LAMBDA r : r.Motivo_Match = MOTIVO_MATCH_COM_ZERO)
    IN (IF total_vendas > 0
        THEN <<"SKUs encontrados">> \o
             (IF nao_encontrados * 100 >= ALERTA_SKU_NAO_ENCONTRADO_PERCENT * total_vendas
              THEN <<"ALERTA">> ELSE <<>>)
        ELSE <<>>)
       \o (IF match_zero > 0 THEN <<"match com zero a esquerda">> ELSE <<>>)

\* lines 98-126: the warnings
AvisosEnriquecimento(df) ==
    LET total_vendas == CountRows(df, LAMBDA r : r.Tipo = TIPO_VENDA)
        nao_encontrados ==
            CountRows(df, LAMBDA r : r.Tipo = TIPO_VENDA /\ r.Motivo_Match = MOTIVO_NAO_ENCONTRADO)
        match_zero == CountRows(df, LAMBDA r : r.Motivo_Match = MOTIVO_MATCH_COM_ZERO)
    IN (IF total_vendas > 0
        THEN <<"SKUs encontrados">> \o
             (IF nao_encontrados * 100 > ALERTA_SKU_NAO_ENCONTRADO_PERCENT * total_vendas
              THEN <<"ALERTA">> ELSE <<>>)
        ELSE <<>>)
       \o (IF match_zero > 0 THEN <<"match com zero a esquerda">> ELSE <<>>)

\* enriquecer_vendas_com_marca: the enriched table
enriquecer_vendas_com_marca(vendas, bd) ==
    LET indice_sku == criar_indice_sku(bd)
    IN [k \in DOMAIN vendas |-> EnriquecerLinha(vendas[k], indice_sku)]

\* filtrar_vendas
filtrar_vendas(df) == SelectSeq(df, LAMBDA r : r.Tipo = TIPO_VENDA)

(* Order of group keys: groupby sorts its result by key.  Strings compare  *)
(* by code point; the symbols of the model differ in their first character *)

SymRank(c) ==
    CASE c = Blank -> 32
      [] c = "123" -> 49
      [] c = "456" -> 52
      [] c = "Ana" -> 65
      [] c = "Bia" -> 66
      [] c = "Norte" -> 78
      [] c = "Sul" -> 83
      [] c = "nan" -> 110
      [] c = "|" -> 124
      [] OTHER -> 0

RECURSIVE SeqLess(_, _)
SeqLess(a, b) ==
    IF Len(b) = 0 THEN FALSE
    ELSE IF Len(a) = 0 THEN TRUE
    ELSE IF a[1] = b[1] THEN SeqLess(Tail(a), Tail(b))
    ELSE SymRank(a[1]) < SymRank(b[1])

\* lexicographic order of keys <<cycle, text, text, ...>>
RECURSIVE TextsLess(_, _, _)
TextsLess(a, b, k) ==
    IF k > Len(a) THEN FALSE
    ELSE IF a[k] = b[k] THEN TextsLess(a, b, k + 1)
    ELSE SeqLess(a[k], b[k])

KeyLess(a, b) == a[1] < b[1] \/ (a[1] = b[1] /\ TextsLess(a, b, 2))

RECURSIVE SortKeys(_)
SortKeys(S) ==
    IF S = {} THEN <<>>
    ELSE LET m == CHOOSE x \in S : \A y \in S \ {x} : KeyLess(x, y)
         IN <<m>> \o SortKeys(S \ {m})

\* lines 164-166: the group key of a row
ChaveCliente(r) ==
    <<r.CicloFaturamento, r.ClienteID, r.Setor, r.CodigoRevendedora, r.NomeRevendedora>>

\* groupby leaves out the rows with a missing key (dropna=True)
ChaveClienteCompleta(r) ==
    ~isna(r.Setor) /\ ~isna(r.CodigoRevendedora) /\ ~isna(r.NomeRevendedora)

\* line 168: list(x.dropna().unique()), as a set
MarcasUnicas(m) == {m[k].Marca_BD : k \in DOMAIN m} \ {NaN}

\* mutant of MarcasConhecidas: the sentinel is counted as a brand
MarcasConhecidas_ComDesconhecida(lista) == lista

\* lines 181-183 and 189-191: the brands other than the sentinel
MarcasConhecidas(lista) == lista \ {MARCA_DESCONHECIDA}

Coluna(m, campo) == [k \in DOMAIN m |-> m[k][campo]]

\* lines 164-191: the row of one group
LinhaCliente(df, src, g) ==
    LET m == SelectSeq(df, LAMBDA r : ChaveCliente(r) = g)
        conhecidas == MarcasConhecidas(MarcasUnicas(m))
    IN [CicloFaturamento |-> g[1],
        ClienteID |-> g[2],
        Setor |-> g[3],
        CodigoRevendedora |-> g[4],
        NomeRevendedora |-> g[5],
        MarcasCompradas |-> conhecidas,
        ItensTotal |-> PandasSum(Coluna(m, "QuantidadeItens"), src),
        ValorTotal |-> PandasSum(Coluna(m, "ValorPraticado"), src),
        QtdeMarcasDistintas |-> Cardinality(conhecidas),
        IsMultimarcas |-> Cardinality(conhecidas) >= 2]

\* calcular_metricas_cliente: one row per group key, in key order
calcular_metricas_cliente(df, src) ==
    LET chaves == SortKeys({ChaveCliente(df[k]) :
                              k \in {j \in DOMAIN df : ChaveClienteCompleta(df[j])}})
    IN [n \in DOMAIN chaves |-> LinhaCliente(df, src, chaves[n])]

\* line 206: the group key of a client-cycle row
ChaveSetor(r) == <<r.CicloFaturamento, r.Setor>>

\* lines 220-222: the percentage, in tenths of a per cent (rounded to one
\* decimal; no tie occurs for the group sizes of the model)
PctMultimarcas(multi, ativos) == (2000 * multi + ativos) \div (2 * ativos)

\* lines 206-222: the row of one (cycle, sector) group
LinhaSetor(dfc, src, g) ==
    LET m == SelectSeq(dfc, LAMBDA r : ChaveSetor(r) = g)
        ativos == Cardinality({m[k].ClienteID : k \in DOMAIN m})
        multi == Cardinality({k \in DOMAIN m : m[k].IsMultimarcas})
    IN [CicloFaturamento |-> g[1],
        Setor |-> g[2],
        ClientesAtivos |-> ativos,
        ClientesMultimarcas |-> multi,
        ItensTotal |-> PandasSum(Coluna(m, "ItensTotal"), src),
        ValorTotal |-> PandasSum(Coluna(m, "ValorTotal"), src),
        PctMultimarcas |-> PctMultimarcas(multi, ativos)]

\* calcular_metricas_setor_ciclo
calcular_metricas_setor_ciclo(dfc, src) ==
    LET chaves == SortKeys({ChaveSetor(dfc[k]) : k \in {j \in DOMAIN dfc : ~isna(dfc[j].Setor)}})
    IN [n \in DOMAIN chaves |-> LinhaSetor(dfc, src, chaves[n])]

\* calcular_metricas_gerais, lines 241-255; the percentage is kept as the
\* fraction <<numerator, denominator>>
calcular_metricas_gerais(dfc, dff, src) ==
    LET total_ativos == Cardinality({dfc[k].ClienteID : k \in DOMAIN dfc})
        total_multimarcas ==
            Cardinality({dfc[k].ClienteID : k \in {j \in DOMAIN dfc : dfc[j].IsMultimarcas}})
    IN [total_ativos |-> total_ativos,
        total_multimarcas |-> total_multimarcas,
        percent_multimarcas |->
            IF total_ativos > 0 THEN <<total_multimarcas * 100, total_ativos>> ELSE <<0, 1>>,
        total_itens |-> PandasSum(Coluna(dff, "QuantidadeItens"), src),
        total_valor |-> PandasSum(Coluna(dff, "ValorPraticado"), src)]

\* lines 364-372: the audited columns of an enriched row
ColunasAuditoria(r) ==
    [CicloFaturamento |-> r.CicloFaturamento,
     Setor |-> r.Setor,
     CodigoRevendedora |-> r.CodigoRevendedora,
     CodigoProduto |-> r.CodigoProduto,
     CodigoProduto_normalizado |-> r.CodigoProduto_normalizado,
     NomeProduto |-> r.NomeProduto,
     Motivo |-> r.Motivo_Match]

\* mutant of drop_duplicates: every row is kept
drop_duplicates_Nenhuma(df) == df

\* DataFrame.drop_duplicates: the first of equal rows is kept
RECURSIVE drop_duplicates(_)
drop_duplicates(df) ==
    IF Len(df) = 0 THEN <<>>
    ELSE LET antes == drop_duplicates(SubSeq(df, 1, Len(df) - 1))
             ultima == df[Len(df)]
         IN IF \E k \in DOMAIN antes : antes[k] = ultima THEN antes ELSE Append(antes, ultima)

\* gerar_auditoria_skus
gerar_auditoria_skus(df) ==
    LET df_audit == SelectSeq(df, LAMBDA r : \/ r.Motivo_Match = MOTIVO_NAO_ENCONTRADO
                                             \/ r.Motivo_Match = MOTIVO_MATCH_COM_ZERO)
    IN drop_duplicates([k \in DOMAIN df_audit |-> ColunasAuditoria(df_audit[k])])

(* Inputs of the pipeline *)

\* the catalog of the pipeline runs: a 5-digit code starting with 0, a
\* 4-digit code, and a product whose brand cell is empty
CatalogoMetricas ==
    << [SKU_normalizado |-> <<0, 1, 2, 3, 4>>, Marca |-> "Eudora", Nome |-> "Colonia"],
       [SKU_normalizado |-> <<5, 6, 7, 8>>, Marca |-> "AuAmigos", Nome |-> "Shampoo"],
       [SKU_normalizado |-> <<9, 0, 1, 2>>, Marca |-> NaN, Nome |-> "Sabonete"] >>

CodEudora == <<1, 2, 3, 4>>
CodAuAmigos == <<5, 6, 7, 8>>
CodSemMarca == <<9, 0, 1, 2>>
CodForaDoBD == <<9, 9, 9, 9>>

Venda(ciclo, setor, nome, codigo, produto, tipo, qtd, valor, src) ==
    [CicloFaturamento |-> ciclo, Setor |-> setor, NomeRevendedora |-> nome,
     CodigoRevendedora |-> codigo,
     CodigoProduto |-> Algarismos(produto), CodigoProduto_normalizado |-> produto,
     NomeProduto |-> "Batom", Tipo |-> tipo,
     QuantidadeItens |-> Celula(qtd, src), ValorPraticado |-> Celula(valor, src)]

\* a catalog uploaded as CSV (keep_default_na=False): a 5-digit code starting
\* with 0, and a product whose brand and name cells are empty strings
CatalogoCsv ==
    << [SKU_normalizado |-> <<0, 1, 2, 3, 4>>, Marca |-> "Eudora", Nome |-> "Colonia"],
       [SKU_normalizado |-> <<7, 7, 7, 7>>, Marca |-> "", Nome |-> ""] >>

\* the product codes as the sales file writes them
CodigosBrutos ==
    { <<"1", "2", "3", "4">>, <<"1", "2", "-", "3", "4">>, <<"7", "7", "7", "7">>,
      <<"9", "9", "9", "9">>, <<>> }

\* processar_vendas line 493: the normalized code of a raw code
VendaBruta(bruto, tipo) ==
    [Venda(1, <<"Norte">>, <<"Ana">>, <<"123">>,
           Codigo(normalizar_sku([tipo |-> "str", txt |-> bruto])), tipo, 1, 2, "csv")
        EXCEPT !.CodigoProduto = bruto]

\* rows that vary the raw product code and the record type
LinhasProduto ==
    {VendaBruta(bruto, tipo) : bruto \in CodigosBrutos, tipo \in {TIPO_VENDA, "Devolucao"}}

\* rows that vary the product bought and the customer name
LinhasMarca ==
    {Venda(1, <<"Norte">>, nome, <<"123">>, produto, TIPO_VENDA, 1, 2, "xlsx") :
        nome \in {<<"Ana">>, <<"Bia">>}, produto \in {CodEudora, CodAuAmigos, CodForaDoBD}}

\* rows that vary cycle, sector and customer code, with missing cells
LinhasGrupo ==
    {Venda(ciclo, setor, <<"Ana">>, codigo, CodEudora, TIPO_VENDA, 1, 2, "xlsx") :
        ciclo \in {1, 2}, setor \in {<<"Norte">>, <<"Sul">>, NaNCell},
        codigo \in {<<"123">>, NaNCell}}

\* rows that vary record type, quantity, amount and product
LinhasTotais(src) ==
    {Venda(1, <<"Norte">>, <<"Ana">>, <<"123">>, produto, tipo, qtd, valor, src) :
        produto \in {CodEudora, CodSemMarca}, tipo \in {TIPO_VENDA, "Devolucao"},
        qtd \in {1, 2}, valor \in {2, 10}}

MetricasIdle ==
    /\ fonte = "xlsx"
    /\ df_vendas = <<>>
    /\ mpc = "idle"
    /\ df_enriquecido = <<>>
    /\ avisos = <<>>
    /\ df_filtrado = <<>>
    /\ df_clientes = <<>>
    /\ df_setor_ciclo = <<>>
    /\ df_auditoria = <<>>
    /\ metricas_gerais = None

InitMetricas ==
    /\ \/ /\ fonte = "xlsx"
          /\ df_bd = CatalogoMetricas
          /\ df_vendas \in SeqsUpTo(LinhasMarca, MaxVendasMarca)
                              \cup SeqsUpTo(LinhasGrupo, MaxVendasGrupo)
       \/ /\ fonte \in {"xlsx", "csv"}
          /\ df_bd = CatalogoMetricas
          /\ df_vendas \in SeqsUpTo(LinhasTotais(fonte), MaxVendasTotais)
       \/ /\ fonte = "csv"
          /\ df_bd \in {CatalogoCsv, <<>>}
          /\ df_vendas \in SeqsUpTo(LinhasProduto, MaxVendasProduto)
    /\ mpc = "vendas"
    /\ df_enriquecido = <<>>
    /\ avisos = <<>>
    /\ df_filtrado = <<>>
    /\ df_clientes = <<>>
    /\ df_setor_ciclo = <<>>
    /\ df_auditoria = <<>>
    /\ metricas_gerais = None

(* processar_vendas_cached, src/app.py lines 336-342 *)

\* line 336: enriquecer_vendas_com_marca(df_vendas, _df_bd)
Enriquecer ==
    /\ mpc = "vendas"
    /\ df_enriquecido' = enriquecer_vendas_com_marca(df_vendas, df_bd)
    /\ avisos' = AvisosEnriquecimento(enriquecer_vendas_com_marca(df_vendas, df_bd))
    /\ mpc' = "enriquecido"
    /\ UNCHANGED <<fonte, df_vendas, df_filtrado, df_clientes, df_setor_ciclo, df_auditoria,
                   metricas_gerais>>
    /\ UNCHANGED <<rvars, ivars, fvars, evars>>

\* line 339: filtrar_vendas(df_vendas_enriquecido)
Filtrar ==
    /\ mpc = "enriquecido"
    /\ df_filtrado' = filtrar_vendas(df_enriquecido)
    /\ mpc' = "filtrado"
    /\ UNCHANGED <<fonte, df_vendas, df_enriquecido, avisos, df_clientes, df_setor_ciclo,
                   df_auditoria, metricas_gerais>>
    /\ UNCHANGED <<rvars, ivars, fvars, evars>>

\* line 340: calcular_metricas_cliente(df_vendas_filtrado)
MetricasCliente ==
    /\ mpc = "filtrado"
    /\ df_clientes' = calcular_metricas_cliente(df_filtrado, fonte)
    /\ mpc' = "clientes"
    /\ UNCHANGED <<fonte, df_vendas, df_enriquecido, avisos, df_filtrado, df_setor_ciclo,
                   df_auditoria, metricas_gerais>>
    /\ UNCHANGED <<rvars, ivars, fvars, evars>>

\* line 341: calcular_metricas_setor_ciclo(df_clientes)
MetricasSetorCiclo ==
    /\ mpc = "clientes"
    /\ df_setor_ciclo' = calcular_metricas_setor_ciclo(df_clientes, fonte)
    /\ mpc' = "setor_ciclo"
    /\ UNCHANGED <<fonte, df_vendas, df_enriquecido, avisos, df_filtrado, df_clientes,
                   df_auditoria, metricas_gerais>>
    /\ UNCHANGED <<rvars, ivars, fvars, evars>>

\* line 342: gerar_auditoria_skus(df_vendas_enriquecido)
Auditoria ==
    /\ mpc = "setor_ciclo"
    /\ df_auditoria' = gerar_auditoria_skus(df_enriquecido)
    /\ mpc' = "auditoria"
    /\ UNCHANGED <<fonte, df_vendas, df_enriquecido, avisos, df_filtrado, df_clientes,
                   df_setor_ciclo, metricas_gerais>>
    /\ UNCHANGED <<rvars, ivars, fvars, evars>>

\* app.py line 808: calcular_metricas_gerais(df_clientes, df_vendas_filtrado),
\* with no filter chosen in the sidebar
MetricasGerais ==
    /\ mpc = "auditoria"
    /\ metricas_gerais' = calcular_metricas_gerais(df_clientes, df_filtrado, fonte)
    /\ mpc' = "gerais"
    /\ UNCHANGED <<fonte, df_vendas, df_enriquecido, avisos, df_filtrado, df_clientes,
                   df_setor_ciclo, df_auditoria>>
    /\ UNCHANGED <<rvars, ivars, fvars, evars>>

NextMetricas ==
    \/ Enriquecer
    \/ Filtrar
    \/ MetricasCliente
    \/ MetricasSetorCiclo
    \/ Auditoria
    \/ MetricasGerais

-----------------------------------------------------------------------------
(* Properties of the aggregation *)

ClientesProntos == mpc \in {"clientes", "setor_ciclo"}

\* the sale-typed rows of the enriched table that carry the group key of a
\* client-cycle row
MembrosVenda(row) ==
    {k \in DOMAIN df_enriquecido :
        /\ df_enriquecido[k].Tipo = TIPO_VENDA
        /\ ChaveCliente(df_enriquecido[k]) = ChaveCliente(row)}

\* the brands, other than the sentinel, resolved for a set of enriched rows;
\* an empty brand cell of the catalog is no brand
MarcasResolvidas(ks) ==
    {df_enriquecido[k].Marca_BD : k \in ks} \ {MARCA_DESCONHECIDA, NaN}

\* the number a numeric cell stands for
Numero(cell, src) == IF src = "csv" THEN ToNat(cell) ELSE cell

\* arithmetic sum of a numeric column over a set of enriched rows
RECURSIVE SomaColuna(_, _)
SomaColuna(ks, campo) ==
    IF ks = {} THEN 0
    ELSE LET k == CHOOSE x \in ks : TRUE
         IN Numero(df_enriquecido[k][campo], fonte) + SomaColuna(ks \ {k}, campo)

\* C3: in every client-cycle row, QtdeMarcasDistintas is the number of
\* distinct resolved brands other than DESCONHECIDA among the sale rows of the
\* group, and IsMultimarcas is true exactly when that number is at least 2.
C3_MultiBrand ==
    ClientesProntos =>
        \A n \in DOMAIN df_clientes :
            LET row == df_clientes[n]
                qtde == Cardinality(MarcasResolvidas(MembrosVenda(row)))
            IN /\ row.QtdeMarcasDistintas = qtde
               /\ row.IsMultimarcas = (qtde >= 2)

\* a group whose four sale rows resolve to two brands and twice to the
\* sentinel: count 2, flag true
C3_Witness ==
    /\ ClientesProntos
    /\ \E n \in DOMAIN df_clientes :
          LET ks == MembrosVenda(df_clientes[n])
          IN /\ Cardinality(ks) = 4
             /\ Cardinality({k \in ks : df_enriquecido[k].Marca_BD = MARCA_DESCONHECIDA}) = 2
             /\ MarcasResolvidas(ks) = {"Eudora", "AuAmigos"}
             /\ df_clientes[n].QtdeMarcasDistintas = 2
             /\ df_clientes[n].IsMultimarcas

\* the (cycle, customerId) pairs of the sale-typed enriched rows
ParesVenda ==
    {<<df_enriquecido[k].CicloFaturamento, df_enriquecido[k].ClienteID>> :
        k \in {j \in DOMAIN df_enriquecido : df_enriquecido[j].Tipo = TIPO_VENDA}}

LinhasDoPar(par) ==
    {n \in DOMAIN df_clientes :
        <<df_clientes[n].CicloFaturamento, df_clientes[n].ClienteID>> = par}

\* C7: the client-cycle table has exactly one row for each distinct
\* (cycle, customerId) pair of the sale-typed enriched rows, whatever sector,
\* customer name and customer code the rows of the pair carry.
C7_OneRowPerPair ==
    ClientesProntos =>
        /\ \A par \in ParesVenda : Cardinality(LinhasDoPar(par)) = 1
        /\ \A n \in DOMAIN df_clientes :
              <<df_clientes[n].CicloFaturamento, df_clientes[n].ClienteID>> \in ParesVenda

\* one pair with two rows (its sale rows differ in sector or name), or a
\* pair with no row at all (a key cell of its sale rows is missing)
C7_Witness ==
    /\ ClientesProntos
    /\ \E par \in ParesVenda : Cardinality(LinhasDoPar(par)) = 2
    /\ \E par \in ParesVenda : Cardinality(LinhasDoPar(par)) = 0

\* C8: ItensTotal and ValorTotal of every client-cycle row are the arithmetic
\* sums of QuantidadeItens and ValorPraticado over the rows of the group whose
\* Tipo is exactly "Venda"; rows of other types stay in the enriched table
\* and add to no total, count or brand set.
C8_SaleOnlyTotals ==
    /\ mpc # "vendas" =>
          /\ Len(df_enriquecido) = Len(df_vendas)
          /\ \A k \in DOMAIN df_vendas : df_enriquecido[k].Tipo = df_vendas[k].Tipo
    /\ ClientesProntos =>
          \A n \in DOMAIN df_clientes :
              LET row == df_clientes[n]
                  ks == MembrosVenda(row)
              IN /\ Numero(row.ItensTotal, fonte) = SomaColuna(ks, "QuantidadeItens")
                 /\ Numero(row.ValorTotal, fonte) = SomaColuna(ks, "ValorPraticado")
                 /\ row.MarcasCompradas = MarcasResolvidas(ks)

\* a file read as CSV with two sale rows of one customer: the quantities 1
\* and 2 give the total "12"
C8_Witness ==
    /\ ClientesProntos
    /\ fonte = "csv"
    /\ \E n \in DOMAIN df_clientes :
          /\ Cardinality(MembrosVenda(df_clientes[n])) = 2
          /\ df_clientes[n].ItensTotal = <<1, 2>>
          /\ SomaColuna(MembrosVenda(df_clientes[n]), "QuantidadeItens") = 3

\* the rows of the client-cycle table in one (cycle, sector)
ClientesDoSetor(g) == {k \in DOMAIN df_clientes : ChaveSetor(df_clientes[k]) = g}

RECURSIVE SomaClientes(_, _)
SomaClientes(ks, campo) ==
    IF ks = {} THEN 0
    ELSE LET k == CHOOSE x \in ks : TRUE
         IN Numero(df_clientes[k][campo], fonte) + SomaClientes(ks \ {k}, campo)

\* C9: the sector table has exactly one row per distinct (cycle, sector) of
\* the client-cycle table; its ClientesAtivos is the number of distinct
\* customerIds of the group, its ClientesMultimarcas the number of multi-brand
\* customers of the group, its ItensTotal and ValorTotal the sums of the
\* group's client-cycle totals.
C9_SectorRollup ==
    mpc = "setor_ciclo" =>
        /\ {ChaveSetor(df_setor_ciclo[n]) : n \in DOMAIN df_setor_ciclo}
             = {ChaveSetor(df_clientes[k]) : k \in DOMAIN df_clientes}
        /\ \A a, b \in DOMAIN df_setor_ciclo :
              ChaveSetor(df_setor_ciclo[a]) = ChaveSetor(df_setor_ciclo[b]) => a = b
        /\ \A n \in DOMAIN df_setor_ciclo :
              LET row == df_setor_ciclo[n]
                  ks == ClientesDoSetor(ChaveSetor(row))
              IN /\ row.ClientesAtivos = Cardinality({df_clientes[k].ClienteID : k \in ks})
                 /\ row.ClientesMultimarcas =
                       Cardinality({df_clientes[k].ClienteID :
                                       k \in {j \in ks : df_clientes[j].IsMultimarcas}})
                 /\ Numero(row.ItensTotal, fonte) = SomaClientes(ks, "ItensTotal")
                 /\ Numero(row.ValorTotal, fonte) = SomaClientes(ks, "ValorTotal")

\* one customer with two multi-brand rows in the client-cycle table: the
\* sector row counts 2 multi-brand customers among 1 active customer
C9_Witness ==
    /\ mpc = "setor_ciclo"
    /\ \E n \in DOMAIN df_setor_ciclo :
          /\ df_setor_ciclo[n].ClientesAtivos = 1
          /\ df_setor_ciclo[n].ClientesMultimarcas = 2

\* what the lookup of the code of sales row k gives in the index of the catalog
Consultado(k) ==
    buscar_sku(df_vendas[k].CodigoProduto_normalizado, criar_indice_sku(df_bd))

Enriquecido == mpc \notin {"idle", "vendas"}

\* C13: for every sales row, Marca_BD is DESCONHECIDA when the code is
\* unmatched and the brand of the matched catalog entry otherwise, Nome_BD is
\* the row's own NomeProduto when unmatched and the name of the matched entry
\* otherwise; the enriched table has one row per input row, in input order,
\* for any catalog, the empty one included.
C13_EnrichmentPerRow ==
    Enriquecido =>
        /\ Len(df_enriquecido) = Len(df_vendas)
        /\ \A k \in DOMAIN df_vendas :
              LET e == df_enriquecido[k]
                  v == df_vendas[k]
              IN /\ \A campo \in DOMAIN v : e[campo] = v[campo]
                 /\ IF Consultado(k).motivo = MOTIVO_NAO_ENCONTRADO
                    THEN e.Marca_BD = MARCA_DESCONHECIDA /\ e.Nome_BD = v.NomeProduto
                    ELSE e.Marca_BD = Consultado(k).marca /\ e.Nome_BD = Consultado(k).nome

\* a sales row matched to the catalog entry 7777, whose brand and name cells
\* are empty, gets the sentinel and its own product name
C13_Witness ==
    /\ Enriquecido
    /\ \E k \in DOMAIN df_vendas :
          /\ Consultado(k) = [marca |-> "", nome |-> "", motivo |-> MOTIVO_MATCH_EXATO]
          /\ df_enriquecido[k].Motivo_Match = MOTIVO_MATCH_EXATO
          /\ df_enriquecido[k].Marca_BD = MARCA_DESCONHECIDA
          /\ df_enriquecido[k].Nome_BD = df_vendas[k].NomeProduto

\* the audited tuples of the enriched rows with one of the two audited reasons
TuplasAuditadas ==
    {ColunasAuditoria(df_enriquecido[k]) :
        k \in {j \in DOMAIN df_enriquecido :
                 df_enriquecido[j].Motivo_Match \in {MOTIVO_NAO_ENCONTRADO, MOTIVO_MATCH_COM_ZERO}}}

\* C15: the audit table holds exactly the distinct tuples (cycle, sector,
\* customer code, raw product code, normalized code, product name, reason) of
\* the enriched rows whose reason is NAO_ENCONTRADO or MATCH_COM_ZERO; no row
\* with MATCH_EXATO appears and no tuple appears twice.
C15_AuditTable ==
    mpc = "auditoria" =>
        /\ {df_auditoria[n] : n \in DOMAIN df_auditoria} = TuplasAuditadas
        /\ Len(df_auditoria) = Cardinality(TuplasAuditadas)
        /\ \A n \in DOMAIN df_auditoria : df_auditoria[n].Motivo # MOTIVO_MATCH_EXATO

\* two equal unmatched rows and one exactly matched row: one audit row
C15_Witness ==
    /\ mpc = "auditoria"
    /\ Len(df_enriquecido) = 3
    /\ Cardinality({k \in DOMAIN df_enriquecido :
                      df_enriquecido[k].Motivo_Match = MOTIVO_NAO_ENCONTRADO}) = 2
    /\ \E k \in DOMAIN df_enriquecido : df_enriquecido[k].Motivo_Match = MOTIVO_MATCH_EXATO
    /\ Len(df_auditoria) = 1


(* Totals across the tables *)

\* the sale-typed rows of the enriched table
LinhasDeVenda == {k \in DOMAIN df_enriquecido : df_enriquecido[k].Tipo = TIPO_VENDA}

\* arithmetic sum of a numeric column over all rows of a metrics table
RECURSIVE SomaTabela(_, _)
SomaTabela(tabela, campo) ==
    IF Len(tabela) = 0 THEN 0
    ELSE Numero(tabela[1][campo], fonte) + SomaTabela(Tail(tabela), campo)

\* C28 (conservation of totals): every sale-typed enriched row is counted in
\* exactly one client-cycle row; the sums of ItensTotal and of ValorTotal
\* over the client-cycle rows, and over the sector-cycle rows, are the sums
\* of QuantidadeItens and ValorPraticado over the sale-typed rows, which are
\* the totals of calcular_metricas_gerais; also with missing customer code,
\* name or sector.
C28_TotalsConserved ==
    mpc = "gerais" =>
        /\ \A k \in LinhasDeVenda :
              Cardinality({n \in DOMAIN df_clientes : k \in MembrosVenda(df_clientes[n])}) = 1
        /\ SomaTabela(df_clientes, "ItensTotal") = SomaColuna(LinhasDeVenda, "QuantidadeItens")
        /\ SomaTabela(df_clientes, "ValorTotal") = SomaColuna(LinhasDeVenda, "ValorPraticado")
        /\ SomaTabela(df_setor_ciclo, "ItensTotal") = SomaColuna(LinhasDeVenda, "QuantidadeItens")
        /\ SomaTabela(df_setor_ciclo, "ValorTotal") = SomaColuna(LinhasDeVenda, "ValorPraticado")
        /\ Numero(metricas_gerais.total_itens, fonte) = SomaColuna(LinhasDeVenda, "QuantidadeItens")
        /\ Numero(metricas_gerais.total_valor, fonte) = SomaColuna(LinhasDeVenda, "ValorPraticado")

\* a spreadsheet with one sale row whose Setor cell is empty: the overall
\* total counts its item, the client-cycle and sector-cycle tables have no row
C28_Witness ==
    /\ mpc = "gerais"
    /\ fonte = "xlsx"
    /\ Len(df_enriquecido) = 1
    /\ isna(df_enriquecido[1].Setor)
    /\ metricas_gerais.total_itens = 1
    /\ df_clientes = <<>>
    /\ df_setor_ciclo = <<>>

SetorPronto == mpc \in {"setor_ciclo", "auditoria", "gerais"}

\* C29: in every sector-cycle row ClientesAtivos >= 1 and
\* 0 <= ClientesMultimarcas <= ClientesAtivos, so the percentage is computed
\* with a non-zero divisor and lies between 0 and 100 (0 and 1000 tenths).
C29_SectorBounds ==
    SetorPronto =>
        \A n \in DOMAIN df_setor_ciclo :
            /\ df_setor_ciclo[n].ClientesAtivos >= 1
            /\ df_setor_ciclo[n].ClientesMultimarcas >= 0
            /\ df_setor_ciclo[n].ClientesMultimarcas <= df_setor_ciclo[n].ClientesAtivos
            /\ df_setor_ciclo[n].PctMultimarcas \in 0..1000

\* one customer code under two names in one sector, both rows multi-brand:
\* the sector row has 200.0 per cent
C29_Witness ==
    /\ SetorPronto
    /\ Len(df_setor_ciclo) = 1
    /\ df_setor_ciclo[1].ClientesAtivos = 1
    /\ df_setor_ciclo[1].ClientesMultimarcas = 2
    /\ df_setor_ciclo[1].PctMultimarcas = 2000

-----------------------------------------------------------------------------
(* Single calls of the helper functions of src/src/io.py, csv_fix.py and   *)
(* transform.py: chamada holds the function and its arguments, the action  *)
(* of the function puts what it returns in retorno.                        *)

FuncoesIdle ==
    /\ chamada = [fn |-> "idle"]
    /\ fpc = "idle"
    /\ retorno = None

ExecIdle == execucoes = <<>>

Retornou(fn) == fpc = "returned" /\ chamada.fn = fn

CharsSku == {"0", "1", "A", "-", Blank}

ValoresSku ==
    {[tipo |-> "str", txt |-> t] : t \in SeqsUpTo(CharsSku, MaxValorLen)}
      \cup {[tipo |-> tp, txt |-> t] : tp \in {"int", "float"},
                                       t \in {<<"0">>, <<"1">>, <<"1", "0">>, <<"1", "0", "1", "1">>}}
      \cup {[tipo |-> tp, txt |-> <<>>] : tp \in {"None", "NaN"}}

ChamadasNormalizarSku == {[fn |-> "normalizar_sku", valor |-> v] : v \in ValoresSku}

ChamarNormalizarSku ==
    /\ fpc = "call"
    /\ chamada.fn = "normalizar_sku"
    /\ retorno' = normalizar_sku(chamada.valor)
    /\ fpc' = "returned"
    /\ UNCHANGED chamada
    /\ UNCHANGED <<rvars, ivars, mvars, evars>>

\* C11: normalizar_sku returns exactly the digit characters of the trimmed
\* string form of its input, in their order and with leading zeros kept, the
\* empty string for None and NaN, and never a non-digit character.
C11_DigitPreservation ==
    Retornou("normalizar_sku") =>
        LET s == Strip(StrValor(chamada.valor))
            pos == {k \in DOMAIN s : s[k] \in DigitChars}
            nth(n) == CHOOSE k \in pos : Cardinality({j \in pos : j < k}) = n - 1
        IN /\ \A k \in DOMAIN retorno : retorno[k] \in DigitChars
           /\ IF chamada.valor.tipo \in {"None", "NaN"}
              THEN retorno = <<>>
              ELSE /\ Len(retorno) = Cardinality(pos)
                   /\ \A n \in DOMAIN retorno : retorno[n] = s[nth(n)]

\* " A-01" gives "01": trimmed, the letter and the hyphen dropped, the
\* leading zero kept
C11_Witness ==
    /\ Retornou("normalizar_sku")
    /\ chamada.valor = [tipo |-> "str", txt |-> <<Blank, "A", "-", "0", "1">>]
    /\ retorno = <<"0", "1">>

(* gerar_id_cliente, applied to the rows of a table (transform.py line 96) *)

CodigosRevendedora ==
    {NaNCell, <<>>, <<Blank>>, <<"123">>, <<Blank, "123", Blank>>, <<"456">>}

LinhasRevendedora ==
    {[CodigoRevendedora |-> c, NomeRevendedora |-> n, Setor |-> st] :
        c \in CodigosRevendedora,
        n \in {<<"Ana">>, <<"Bia">>, NaNCell},
        st \in {<<"Norte">>, <<"Sul">>, NaNCell}}

ChamadasGerarIdCliente ==
    {[fn |-> "gerar_id_cliente", df |-> <<r1, r2>>] : r1, r2 \in LinhasRevendedora}

ChamarGerarIdCliente ==
    /\ fpc = "call"
    /\ chamada.fn = "gerar_id_cliente"
    /\ retorno' = [k \in DOMAIN chamada.df |-> gerar_id_cliente(chamada.df[k])]
    /\ fpc' = "returned"
    /\ UNCHANGED chamada
    /\ UNCHANGED <<rvars, ivars, mvars, evars>>

\* a code cell that is present and holds something other than blanks
CodigoPresente(c) == ~isna(c) /\ \E k \in DOMAIN c : c[k] # Blank

\* t is s without its leading and trailing blanks
Aparado(t, s) ==
    /\ t # <<>> => t[1] # Blank /\ t[Len(t)] # Blank
    /\ \E a, b \in 0..Len(s) :
          /\ s = [k \in 1..a |-> Blank] \o t \o [k \in 1..b |-> Blank]

\* C12: the customerId is the trimmed customer code when the code is present
\* and not blank, otherwise name, "|" and sector; two rows with the same
\* non-blank code get the same customerId whatever their name and sector.
C12_CustomerIdentity ==
    Retornou("gerar_id_cliente") =>
        /\ \A k \in DOMAIN chamada.df :
              LET row == chamada.df[k]
              IN IF CodigoPresente(row.CodigoRevendedora)
                 THEN Aparado(retorno[k], row.CodigoRevendedora)
                 ELSE retorno[k] = Str(row.NomeRevendedora) \o <<"|">> \o Str(row.Setor)
        /\ \A j, k \in DOMAIN chamada.df :
              /\ CodigoPresente(chamada.df[j].CodigoRevendedora)
              /\ chamada.df[j].CodigoRevendedora = chamada.df[k].CodigoRevendedora
              => retorno[j] = retorno[k]

\* two rows with the code " 123 " and different names and sectors get "123"
C12_Witness ==
    /\ Retornou("gerar_id_cliente")
    /\ chamada.df[1].CodigoRevendedora = <<Blank, "123", Blank>>
    /\ chamada.df[2].CodigoRevendedora = <<Blank, "123", Blank>>
    /\ chamada.df[1].NomeRevendedora # chamada.df[2].NomeRevendedora
    /\ chamada.df[1].Setor # chamada.df[2].Setor
    /\ retorno = << <<"123">>, <<"123">> >>

(* enriquecer_vendas_com_marca on tables with many rows *)

Repetir(row, n) == [k \in 1..n |-> row]

\* a sales table with ok matched sale rows, nf unmatched sale rows and outros
\* unmatched rows of another type
TabelaAlerta(ok, nf, outros) ==
    Repetir(Venda(1, <<"Norte">>, <<"Ana">>, <<"123">>, CodEudora, TIPO_VENDA, 1, 2, "xlsx"), ok)
      \o Repetir(Venda(1, <<"Norte">>, <<"Ana">>, <<"123">>, CodForaDoBD, TIPO_VENDA, 1, 2, "xlsx"), nf)
      \o Repetir(Venda(1, <<"Norte">>, <<"Ana">>, <<"123">>, CodForaDoBD, "Devolucao", 1, 2, "xlsx"), outros)

ChamadasEnriquecer ==
    {[fn |-> "enriquecer_vendas_com_marca", df_vendas |-> TabelaAlerta(ok, nf, outros),
      df_bd |-> CatalogoMetricas] :
        ok \in 0..MaxVendasAlerta, nf \in 0..MaxNaoEncontrados, outros \in 0..MaxNaoEncontrados}

ChamarEnriquecer ==
    /\ fpc = "call"
    /\ chamada.fn = "enriquecer_vendas_com_marca"
    /\ retorno' =
          [df |-> enriquecer_vendas_com_marca(chamada.df_vendas, chamada.df_bd),
           avisos |-> AvisosEnriquecimento(
                          enriquecer_vendas_com_marca(chamada.df_vendas, chamada.df_bd))]
    /\ fpc' = "returned"
    /\ UNCHANGED chamada
    /\ UNCHANGED <<rvars, ivars, mvars, evars>>

Contem(seq, x) == \E k \in DOMAIN seq : seq[k] = x

\* S and N of a returned enrichment
VendasS == Cardinality({k \in DOMAIN chamada.df_vendas : chamada.df_vendas[k].Tipo = TIPO_VENDA})

VendasN ==
    Cardinality({k \in DOMAIN retorno.df :
                   /\ retorno.df[k].Tipo = TIPO_VENDA
                   /\ retorno.df[k].Motivo_Match = MOTIVO_NAO_ENCONTRADO})

\* C14: the match-rate summary is emitted iff S > 0, and the ALERTA warning
\* iff S > 0 and N/S is strictly greater than 5% (N/S = 5% gives no alert);
\* rows of other types change neither decision.
C14_UnmatchedAlert ==
    Retornou("enriquecer_vendas_com_marca") =>
        /\ Contem(retorno.avisos, "SKUs encontrados") <=> VendasS > 0
        /\ Contem(retorno.avisos, "ALERTA") <=> (VendasS > 0 /\ 20 * VendasN > VendasS)

\* 20 sale rows, one of them unmatched, and unmatched rows of another type:
\* exactly 5%, the summary without the alert
C14_Witness ==
    /\ Retornou("enriquecer_vendas_com_marca")
    /\ VendasS = 20
    /\ VendasN = 1
    /\ Len(chamada.df_vendas) > 20
    /\ Contem(retorno.avisos, "SKUs encontrados")
    /\ ~Contem(retorno.avisos, "ALERTA")

(* validar_colunas, processar_bd_produtos and processar_vendas on the header *)
(* of a file.  A column name is a sequence of symbols, blanks included.      *)

BD_REQUIRED_COLUMNS == << <<"SKU">>, <<"Nome">>, <<"Marca">> >>

VENDAS_REQUIRED_COLUMNS ==
    << <<"Setor">>, <<"NomeRevendedora">>, <<"CodigoRevendedora">>, <<"CicloFaturamento">>,
       <<"CodigoProduto">>, <<"NomeProduto">>, <<"Tipo">>, <<"QuantidadeItens">>,
       <<"ValorPraticado">> >>

VENDAS_OPTIONAL_COLUMNS == << <<"MeioCaptacao">> >>

\* df.columns.str.strip()
StripColunas(colunas) == [k \in DOMAIN colunas |-> Strip(colunas[k])]

\* mutant of validar_colunas: the names are compared as they are written
validar_colunas_SemStrip(colunas, colunas_obrigatorias) ==
    LET colunas_existentes == {colunas[k] : k \in DOMAIN colunas}
        colunas_faltantes ==
            SelectSeq(colunas_obrigatorias, LAMBDA col : col \notin colunas_existentes)
    IN [valido |-> Len(colunas_faltantes) = 0, faltantes |-> colunas_faltantes]

\* validar_colunas
validar_colunas(colunas, colunas_obrigatorias) ==
    LET colunas_existentes == {Strip(colunas[k]) : k \in DOMAIN colunas}
        colunas_faltantes ==
            SelectSeq(colunas_obrigatorias, LAMBDA col : col \notin colunas_existentes)
    IN [valido |-> Len(colunas_faltantes) = 0, faltantes |-> colunas_faltantes]

\* processar_bd_produtos on a file with the given header and no data row:
\* the error raised, or the columns of the table returned and its warnings
processar_bd_produtos(colunas) ==
    LET v == validar_colunas(StripColunas(colunas), BD_REQUIRED_COLUMNS)
    IN IF ~v.valido
       THEN [erro |-> "DataValidationError", faltantes |-> v.faltantes,
             colunas |-> <<>>, avisos |-> <<>>]
       ELSE [erro |-> None, faltantes |-> <<>>,
             colunas |-> Append(StripColunas(colunas), <<"SKU_normalizado">>),
             avisos |-> <<>>]

\* processar_vendas on a file with the given header
processar_vendas(colunas) ==
    LET cols == StripColunas(colunas)
        v == validar_colunas(cols, VENDAS_REQUIRED_COLUMNS)
        sem_opcional == SelectSeq(VENDAS_OPTIONAL_COLUMNS,
                                  LAMBDA col : \A k \in DOMAIN cols : cols[k] # col)
    IN IF ~v.valido
       THEN [erro |-> "DataValidationError", faltantes |-> v.faltantes,
             colunas |-> <<>>, avisos |-> <<>>]
       ELSE [erro |-> None, faltantes |-> <<>>,
             colunas |-> (cols \o sem_opcional) \o << <<"CodigoProduto_normalizado">> >>,
             avisos |-> [k \in DOMAIN sem_opcional |-> "Coluna opcional nao encontrada"]
                          \o <<"Total de registros", "Registros tipo 'Venda'", "Outros tipos">>]

NomesColunaBD ==
    { <<"SKU">>, <<Blank, "SKU">>, <<"sku">>, <<"Nome">>, <<"Marca">>, <<"Marca", Blank>> }

\* headers whose names stay different after trimming
CabecalhosBD ==
    {h \in SeqsUpTo(NomesColunaBD, MaxColunas) :
        \A j, k \in DOMAIN h : Strip(h[j]) = Strip(h[k]) => j = k}

\* the sequence s without the positions in D
SemPosicoes(s, D) ==
    LET F[k \in 0..Len(s)] ==
            IF k = 0 THEN <<>>
            ELSE IF k \in D THEN F[k - 1] ELSE Append(F[k - 1], s[k])
    IN F[Len(s)]

\* sales headers: the required columns less at most two of them, the first
\* name written with or without a leading blank, with or without MeioCaptacao
CabecalhosVendas ==
    {[k \in DOMAIN h |-> IF k = 1 THEN pad \o h[k] ELSE h[k]] \o opc :
        h \in {SemPosicoes(VENDAS_REQUIRED_COLUMNS, D) :
                 D \in {X \in SUBSET (1..Len(VENDAS_REQUIRED_COLUMNS)) : Cardinality(X) <= 2}},
        pad \in {<<>>, <<Blank>>},
        opc \in {<<>>, VENDAS_OPTIONAL_COLUMNS}}

ChamadasValidar ==
    {[fn |-> "validar_colunas", colunas |-> h, obrigatorias |-> BD_REQUIRED_COLUMNS] :
        h \in CabecalhosBD}
    \cup {[fn |-> "processar_bd_produtos", colunas |-> h, obrigatorias |-> BD_REQUIRED_COLUMNS] :
            h \in CabecalhosBD}
    \cup {[fn |-> "processar_vendas", colunas |-> h, obrigatorias |-> VENDAS_REQUIRED_COLUMNS] :
            h \in CabecalhosVendas}

ChamarValidarColunas ==
    /\ fpc = "call"
    /\ chamada.fn = "validar_colunas"
    /\ retorno' = validar_colunas(chamada.colunas, chamada.obrigatorias)
    /\ fpc' = "returned"
    /\ UNCHANGED chamada
    /\ UNCHANGED <<rvars, ivars, mvars, evars>>

ChamarProcessarBdProdutos ==
    /\ fpc = "call"
    /\ chamada.fn = "processar_bd_produtos"
    /\ retorno' = processar_bd_produtos(chamada.colunas)
    /\ fpc' = "returned"
    /\ UNCHANGED chamada
    /\ UNCHANGED <<rvars, ivars, mvars, evars>>

ChamarProcessarVendas ==
    /\ fpc = "call"
    /\ chamada.fn = "processar_vendas"
    /\ retorno' = processar_vendas(chamada.colunas)
    /\ fpc' = "returned"
    /\ UNCHANGED chamada
    /\ UNCHANGED <<rvars, ivars, mvars, evars>>

\* the required columns absent from the trimmed names of the call
Ausentes ==
    {n \in DOMAIN chamada.obrigatorias :
        \A k \in DOMAIN chamada.colunas : Strip(chamada.colunas[k]) # chamada.obrigatorias[n]}

\* seq lists exactly the required columns at the positions D, in required order
ListaEmOrdem(seq, D) ==
    /\ Len(seq) = Cardinality(D)
    /\ \A n \in DOMAIN seq :
          seq[n] = chamada.obrigatorias[
                       CHOOSE d \in D : Cardinality({x \in D : x < d}) = n - 1]

\* C16: validar_colunas succeeds iff every required column is among the
\* trimmed column names and otherwise returns exactly the absent required
\* columns in required order; processar_vendas and processar_bd_produtos then
\* raise DataValidationError naming those columns, with no column normalized
\* and no warning produced.
C16_RequiredColumns ==
    /\ Retornou("validar_colunas") =>
          /\ retorno.valido <=> Ausentes = {}
          /\ ListaEmOrdem(retorno.faltantes, Ausentes)
    /\ Retornou("processar_bd_produtos") \/ Retornou("processar_vendas") =>
          IF Ausentes = {}
          THEN retorno.erro = None
          ELSE /\ retorno.erro = "DataValidationError"
               /\ ListaEmOrdem(retorno.faltantes, Ausentes)
               /\ retorno.colunas = <<>>
               /\ retorno.avisos = <<>>

\* a sales header without Setor and Tipo: the error names the two, in order
C16_Witness ==
    /\ Retornou("processar_vendas")
    /\ retorno.erro = "DataValidationError"
    /\ retorno.faltantes = << <<"Setor">>, <<"Tipo">> >>
    /\ retorno.avisos = <<>>

(* detect_sep and the choice of the separator, csv_fix.py lines 42-51, 88-90 *)

CharsCabecalho == {"|", ";", ",", "\t", "a"}

ChamadasSeparador ==
    {[fn |-> "detect_sep", header_line |-> h, sep |-> sp] :
        h \in SeqsUpTo(CharsCabecalho, MaxCabecalho), sp \in {"None", "", ";", "a"}}

ChamarDetectSep ==
    /\ fpc = "call"
    /\ chamada.fn = "detect_sep"
    /\ retorno' = EscolherSeparador(chamada.sep, chamada.header_line)
    /\ fpc' = "returned"
    /\ UNCHANGED chamada
    /\ UNCHANGED <<rvars, ivars, mvars, evars>>

\* number of occurrences of a character in the header line of the call
Ocorrencias(ch) == Cardinality({k \in DOMAIN chamada.header_line : chamada.header_line[k] = ch})

\* place of a candidate in the priority order | ; , tab
Prioridade(ch) == CASE ch = "|" -> 1 [] ch = ";" -> 2 [] ch = "," -> 3 [] ch = "\t" -> 4

\* C17: the separator is a candidate with the highest number of occurrences
\* in the header line, the first such in the order | ; , tab, and "," when no
\* candidate occurs; a separator forced by the caller is used as given.
C17_DelimiterDetection ==
    Retornou("detect_sep") =>
        IF chamada.sep \notin {"None", ""}
        THEN retorno = chamada.sep
        ELSE /\ retorno \in {"|", ";", ",", "\t"}
             /\ IF \A ch \in {"|", ";", ",", "\t"} : Ocorrencias(ch) = 0
                THEN retorno = ","
                ELSE \A ch \in {"|", ";", ",", "\t"} :
                        \/ Ocorrencias(ch) < Ocorrencias(retorno)
                        \/ /\ Ocorrencias(ch) = Ocorrencias(retorno)
                           /\ Prioridade(retorno) <= Prioridade(ch)

\* ";" and "," both occur twice and no "|" occurs: ";" is detected
C17_Witness ==
    /\ Retornou("detect_sep")
    /\ chamada.sep = "None"
    /\ Ocorrencias(";") = 2
    /\ Ocorrencias(",") = 2
    /\ retorno = ";"

(* The column that absorbs excess fields, in the two repair implementations: *)
(* csv_fix.py lines 53-74, 101, 178-188; io.py lines 145-149, 205-217,       *)
(* 323-331                                                                   *)

CabecalhosTexto ==
    Headers \cup
    { <<"Nome", "|", "NomeProduto">>,
      <<"Setor", "|", "Nome", "|", "NomeProduto">>,
      <<"Setor", "|", "Tipo">> }

\* one data line with more fields than the header has columns
RegistrosExcesso(h) ==
    LET sep == detect_sep(h)
        n == Len(split_naive(h, sep))
    IN {r \in SeqsUpTo({sep, "a"}, MaxRegistro) : Len(split_naive(r, sep)) > n}

ChamadasColunaTexto ==
    UNION {{[fn |-> f, header_line |-> h, record |-> r] :
                f \in {"fix_broken_csv_bytes", "ler_arquivo"},
                r \in RegistrosExcesso(h)}
           : h \in CabecalhosTexto}

\* io.py lines 326-329: the fallback passes the first header column, stripped
ler_arquivo_target_col(primeira_linha, separador) ==
    Strip(split_naive(primeira_linha, separador)[1])

\* io.py lines 145-149: header.index(target_col), 0 when it is absent
corrigir_csv_target_idx(hdr, target_col) ==
    IF \E k \in DOMAIN hdr : hdr[k] = target_col
    THEN (CHOOSE k \in DOMAIN hdr :
            /\ hdr[k] = target_col
            /\ \A j \in 1..(k - 1) : hdr[j] # target_col) - 1
    ELSE 0

\* csv_fix.py lines 165-205 and io.py lines 198-222: the row written for one
\* record, given the column count, the absorbing column and the separator
AjustarRegistro(p, n, t, sep) ==
    IF Len(p) = n THEN p
    ELSE IF Len(p) > n
    THEN LET extra == Len(p) - n
             new_parts == PySlice(p, 0, t)
                          \o <<SepJoin(PySlice(p, t, t + 1 + extra), sep)>>
                          \o PySlice(p, t + 1 + extra, Len(p))
         IN IF Len(new_parts) > n THEN PySlice(new_parts, 0, n)
            ELSE IF Len(new_parts) < n THEN new_parts \o Empties(n - Len(new_parts))
            ELSE new_parts
    ELSE p \o Empties(n - Len(p))

CabecalhoDe(header_line) ==
    LET hp == split_naive(header_line, detect_sep(header_line))
    IN [k \in DOMAIN hp |-> Strip(hp[k])]

\* csv_fix.fix_broken_csv_bytes on a header line and one record
ChamarFixBrokenCsv ==
    /\ fpc = "call"
    /\ chamada.fn = "fix_broken_csv_bytes"
    /\ LET sep == detect_sep(chamada.header_line)
           hdr == CabecalhoDe(chamada.header_line)
           t == find_text_column(hdr)
       IN retorno' = [header |-> hdr, text_col_idx |-> t,
                      parts |-> split_naive(chamada.record, sep),
                      row |-> AjustarRegistro(split_naive(chamada.record, sep),
                                              Len(hdr), t, sep)]
    /\ fpc' = "returned"
    /\ UNCHANGED chamada
    /\ UNCHANGED <<rvars, ivars, mvars, evars>>

\* ler_arquivo when pd.read_csv raised: corrigir_csv with the first header
\* column as target_col
ChamarLerArquivoFallback ==
    /\ fpc = "call"
    /\ chamada.fn = "ler_arquivo"
    /\ LET sep == detect_sep(chamada.header_line)
           hdr == CabecalhoDe(chamada.header_line)
           t == corrigir_csv_target_idx(hdr, ler_arquivo_target_col(chamada.header_line, sep))
       IN retorno' = [header |-> hdr, text_col_idx |-> t,
                      parts |-> split_naive(chamada.record, sep),
                      row |-> AjustarRegistro(split_naive(chamada.record, sep),
                                              Len(hdr), t, sep)]
    /\ fpc' = "returned"
    /\ UNCHANGED chamada
    /\ UNCHANGED <<rvars, ivars, mvars, evars>>

RetornouReparo == Retornou("fix_broken_csv_bytes") \/ Retornou("ler_arquivo")

\* places, in the priority order, of the candidates that name a header column
CandidatosPresentes(hdr) ==
    {c \in DOMAIN TextCandidates :
        \E k \in DOMAIN hdr : Strip(Lower(hdr[k])) = TextCandidates[c]}

\* C22 (text-column choice): in both repair implementations the column that
\* absorbs excess fields is the header column whose trimmed, lower-cased name
\* is the first matching candidate of the priority order, the first column
\* when no candidate matches; a record with excess fields under a header
\* containing NomeProduto has its excess merged into NomeProduto.
C22_TextColumn ==
    RetornouReparo =>
        LET hdr == retorno.header
            t == retorno.text_col_idx
            hits == CandidatosPresentes(hdr)
        IN /\ IF hits = {} THEN t = 0
              ELSE Strip(Lower(hdr[t + 1]))
                     = TextCandidates[CHOOSE c \in hits : \A d \in hits : c <= d]
           /\ ((\E k \in DOMAIN hdr : hdr[k] = <<"NomeProduto">>)
                 /\ Len(retorno.parts) > Len(hdr))
              => /\ hdr[t + 1] = <<"NomeProduto">>
                 /\ Len(retorno.row[t + 1]) > Len(retorno.parts[t + 1])

\* the fallback of ler_arquivo repaired a record with one field too many
\* under Setor|NomeProduto|Tipo and merged the excess into Setor
C22_Witness ==
    /\ Retornou("ler_arquivo")
    /\ retorno.header = << <<"Setor">>, <<"NomeProduto">>, <<"Tipo">> >>
    /\ retorno.parts = << <<"a">>, <<"a">>, <<"a">>, <<"a">> >>
    /\ retorno.text_col_idx = 0
    /\ retorno.row = << <<"a", "|", "a">>, <<"a">>, <<"a">> >>

(* The repair parser run on its own output: csv_fix.fix_broken_csv_bytes,   *)
(* csv_fix.py lines 83-223, and tools/fix_csv.fix_csv, tools/fix_csv.py     *)
(* lines 33-157, as functions of the text                                   *)

\* the inner loop (csv_fix.py lines 144-153, fix_csv.py lines 85-89) from
\* the line with 0-based index i
RECURSIVE JuntarContinuacoes(_, _, _, _, _, _)
JuntarContinuacoes(ls, cur, b, j, n, sep) ==
    IF /\ Len(split_naive(b, sep)) < n
       /\ cur + 1 < Len(ls)
       /\ Len(ls[cur + 2]) > 0
       /\ ls[cur + 2][1] = sep
    THEN JuntarContinuacoes(ls, cur + 1, b \o ls[cur + 2], j + 1, n, sep)
    ELSE [buf |-> b, i |-> cur, joined |-> j]

\* the outer loop (csv_fix.py lines 137-217, fix_csv.py lines 78-139): the
\* rows written, the number of entries of report.fixes, the unchanged counter
RECURSIVE LacoDeReparo(_, _, _, _, _, _)
LacoDeReparo(ls, cur, n, t, sep, acc) ==
    IF cur >= Len(ls) THEN acc
    ELSE LET j == JuntarContinuacoes(ls, cur, ls[cur + 1], 0, n, sep)
             p == split_naive(j.buf, sep)
         IN LacoDeReparo(ls, j.i + 1, n, t, sep,
                [rows |-> Append(acc.rows, AjustarRegistro(p, n, t, sep)),
                 n_fixes |-> acc.n_fixes + (IF j.joined > 0 THEN 1 ELSE 0)
                                         + (IF Len(p) # n THEN 1 ELSE 0),
                 unchanged |-> acc.unchanged + (IF Len(p) = n THEN 1 ELSE 0)])

\* csv_fix.py lines 123-133, 219-220: every row through csv.writer, each line
\* ended by \n
SaidaCsvWriter(rs, sep) ==
    Flatten([k \in DOMAIN rs |-> writerow(rs[k], sep) \o <<Newline>>])

\* fix_csv.py lines 75, 141: "\n".join of the sep.join of every row
SaidaSepJoin(rs, sep) ==
    SepJoin([k \in DOMAIN rs |-> SepJoin(rs[k], sep)], Newline)

\* one run of a repair implementation on a text with at least one line
Reparar(impl, txt) ==
    LET ls == splitlines(txt)
        sep == detect_sep(ls[1])
        hdr == CabecalhoDe(ls[1])
        t == IF impl = "fix_broken_csv_bytes" THEN find_text_column(hdr)
             ELSE corrigir_csv_target_idx(hdr, <<"NomeProduto">>)
        res == LacoDeReparo(ls, 1, Len(hdr), t, sep,
                            [rows |-> <<hdr>>, n_fixes |-> 0, unchanged |-> 0])
    IN [rows |-> res.rows, n_fixes |-> res.n_fixes, unchanged |-> res.unchanged,
        saida |-> IF impl = "fix_broken_csv_bytes" THEN SaidaCsvWriter(res.rows, sep)
                  ELSE SaidaSepJoin(res.rows, sep)]

CabecalhosReparo ==
    { <<"Setor", "|", "NomeProduto", "|", "Tipo">>, <<"NomeProduto", "|", "Setor">> }

ChamadasReparoDuplo ==
    {[fn |-> "reparar_duas_vezes", impl |-> f, text |-> h \o <<Newline>> \o b] :
        f \in {"fix_broken_csv_bytes", "fix_csv"},
        h \in CabecalhosReparo,
        b \in SeqsUpTo({"|", "a", Newline}, MaxCorpo)}

\* the repair, and the repair again on the text the first run wrote
ChamarReparoDuplo ==
    /\ fpc = "call"
    /\ chamada.fn = "reparar_duas_vezes"
    /\ \E primeira \in {Reparar(chamada.impl, chamada.text)} :
          retorno' = [primeira |-> primeira,
                      segunda |-> Reparar(chamada.impl, primeira.saida)]
    /\ fpc' = "returned"
    /\ UNCHANGED chamada
    /\ UNCHANGED <<rvars, ivars, mvars, evars>>

\* C30 (idempotence): the repair parser run on the text it produced gives
\* the same table, reports every row as unchanged and records no fix, for
\* every input, with csv.writer output and with sep.join output.
C30_Idempotent ==
    Retornou("reparar_duas_vezes") =>
        /\ retorno.segunda.rows = retorno.primeira.rows
        /\ retorno.segunda.n_fixes = 0
        /\ retorno.segunda.unchanged = Len(retorno.primeira.rows) - 1

\* fix_broken_csv_bytes merged the excess of "a|a|a|a" into NomeProduto and
\* wrote the field in quotes; the second run splits inside the quotes,
\* merges again and keeps the quotes as text
C30_Witness ==
    /\ Retornou("reparar_duas_vezes")
    /\ chamada.impl = "fix_broken_csv_bytes"
    /\ Len(retorno.primeira.rows) = 2
    /\ Len(retorno.segunda.rows) = 2
    /\ retorno.primeira.rows[2] = << <<"a">>, <<"a", "|", "a">>, <<"a">> >>
    /\ retorno.segunda.rows[2] = << <<"a">>, <<Quote, "a", "|", "a", Quote>>, <<"a">> >>
    /\ retorno.segunda.n_fixes = 1
    /\ retorno.segunda.unchanged = 0

-----------------------------------------------------------------------------
(* Two runs of processar_vendas_cached over one catalog, their steps        *)
(* interleaved.  Each run has its own sales table and its own locals: the    *)
(* dict of criar_indice_sku (io.py line 521), the copy of the sales table    *)
(* that enriquecer_vendas_com_marca fills (transform.py line 66), the tables *)
(* of the metrics.  The catalog df_bd is the one object both runs read.      *)

Execucoes == {1, 2}

LinhasExecucao ==
    { Venda(1, <<"Norte">>, <<"Ana">>, <<"123">>, CodEudora, TIPO_VENDA, 1, 2, "xlsx"),
      Venda(1, <<"Norte">>, <<"Ana">>, <<"123">>, CodAuAmigos, TIPO_VENDA, 1, 2, "xlsx"),
      Venda(1, <<"Sul">>, <<"Bia">>, <<"456">>, CodForaDoBD, TIPO_VENDA, 1, 2, "xlsx") }

ExecucaoNova(vendas) ==
    [df_vendas |-> vendas, pc |-> "inicio", pos |-> 0, indice |-> EmptyDict,
     df |-> <<>>, df_clientes |-> <<>>, df_setor_ciclo |-> <<>>]

InitExecucoes ==
    /\ df_bd = CatalogoMetricas
    /\ \E v1, v2 \in SeqsUpTo(LinhasExecucao, MaxVendasExecucao) :
          execucoes = <<ExecucaoNova(v1), ExecucaoNova(v2)>>

\* mutant of IndiceDaExecucao: one dict is kept for all runs
IndiceDaExecucao_Compartilhado(e, r) == e[1].indice

\* the dict a run builds and looks codes up in: a local of its own call
IndiceDaExecucao(e, r) == e[r].indice

\* io.py line 521: indice = {}
ExecCriarIndice(r) ==
    /\ execucoes[r].pc = "inicio"
    /\ execucoes' = [execucoes EXCEPT ![r] = [@ EXCEPT !.pc = "indexando", !.pos = 0,
                                                      !.indice = EmptyDict]]
    /\ UNCHANGED <<rvars, ivars, mvars, fvars>>

\* io.py lines 523-541: the loop takes the next catalog row
ExecIndexar(r) ==
    /\ execucoes[r].pc = "indexando"
    /\ execucoes[r].pos < Len(df_bd)
    /\ execucoes' =
          [execucoes EXCEPT ![r] =
              [@ EXCEPT !.pos = @ + 1,
                        !.indice = IndexarLinha(IndiceDaExecucao(execucoes, r),
                                                df_bd[execucoes[r].pos + 1])]]
    /\ UNCHANGED <<rvars, ivars, mvars, fvars>>

\* transform.py lines 66-96: the copy of the sales table gets its columns
ExecEnriquecer(r) ==
    /\ execucoes[r].pc = "indexando"
    /\ execucoes[r].pos = Len(df_bd)
    /\ execucoes' =
          [execucoes EXCEPT ![r] =
              [@ EXCEPT !.pc = "enriquecido",
                        !.df = [k \in DOMAIN execucoes[r].df_vendas |->
                                   EnriquecerLinha(execucoes[r].df_vendas[k],
                                                   IndiceDaExecucao(execucoes, r))]]]
    /\ UNCHANGED <<rvars, ivars, mvars, fvars>>

\* app.py lines 339-341: the metrics of the run
ExecMetricas(r) ==
    /\ execucoes[r].pc = "enriquecido"
    /\ LET clientes == calcular_metricas_cliente(filtrar_vendas(execucoes[r].df), "xlsx")
       IN execucoes' =
             [execucoes EXCEPT ![r] =
                 [@ EXCEPT !.pc = "done",
                           !.df_clientes = clientes,
                           !.df_setor_ciclo = calcular_metricas_setor_ciclo(clientes, "xlsx")]]
    /\ UNCHANGED <<rvars, ivars, mvars, fvars>>

NextExecucoes ==
    \E r \in Execucoes :
        \/ ExecCriarIndice(r)
        \/ ExecIndexar(r)
        \/ ExecEnriquecer(r)
        \/ ExecMetricas(r)

\* what a run alone computes from its sales table and the catalog
Sozinha(vendas) ==
    LET df == enriquecer_vendas_com_marca(vendas, df_bd)
        clientes == calcular_metricas_cliente(filtrar_vendas(df), "xlsx")
    IN [df |-> df, df_clientes |-> clientes,
        df_setor_ciclo |-> calcular_metricas_setor_ciclo(clientes, "xlsx")]

\* C19: every step of a run leaves the catalog and the sales table of each
\* run as they were, and a run that has finished, however its steps were
\* interleaved with those of the other run, holds the enriched rows and the
\* metrics it computes when run alone.
C19_RunIsolation ==
    /\ [][/\ df_bd' = df_bd
          /\ \A r \in DOMAIN execucoes : execucoes'[r].df_vendas = execucoes[r].df_vendas]_vars
    /\ [](\A r \in DOMAIN execucoes :
             execucoes[r].pc = "done" =>
                /\ execucoes[r].df = Sozinha(execucoes[r].df_vendas).df
                /\ execucoes[r].df_clientes = Sozinha(execucoes[r].df_vendas).df_clientes
                /\ execucoes[r].df_setor_ciclo = Sozinha(execucoes[r].df_vendas).df_setor_ciclo)

\* run 2 has finished on a table with a matched row while run 1, on another
\* table, is in the middle of building its index
C19_Witness ==
    /\ execucoes # <<>>
    /\ execucoes[2].pc = "done"
    /\ execucoes[1].pc = "indexando"
    /\ execucoes[1].pos = 1
    /\ execucoes[1].df_vendas # execucoes[2].df_vendas
    /\ \E k \in DOMAIN execucoes[2].df : execucoes[2].df[k].Marca_BD = "Eudora"

-----------------------------------------------------------------------------
(* Specifications *)

InitSpecRepair == InitRepair /\ IndiceIdle /\ MetricasIdle /\ FuncoesIdle /\ ExecIdle

SpecRepair == InitSpecRepair /\ [][NextRepair]_vars

\* fix_broken_csv_bytes is one sequential call: a step that can be taken is
\* taken
SpecRepairLive == SpecRepair /\ WF_vars(NextRepair)

InitSpecIndice ==
    InitIndice /\ RepairIdle /\ text = <<>> /\ MetricasIdle /\ FuncoesIdle /\ ExecIdle

SpecIndice == InitSpecIndice /\ [][NextIndice]_vars

InitSpecMetricas ==
    /\ InitMetricas
    /\ RepairIdle /\ text = <<>>
    /\ ipc = "idle" /\ bd_pos = 0 /\ indice = EmptyDict /\ consulta = None /\ resultado = None
    /\ FuncoesIdle /\ ExecIdle

SpecMetricas == InitSpecMetricas /\ [][NextMetricas]_vars

InitFuncoes ==
    /\ \/ chamada \in ChamadasNormalizarSku
       \/ chamada \in ChamadasGerarIdCliente
       \/ chamada \in ChamadasEnriquecer
       \/ chamada \in ChamadasValidar
       \/ chamada \in ChamadasSeparador
       \/ chamada \in ChamadasColunaTexto
       \/ chamada \in ChamadasReparoDuplo
    /\ fpc = "call"
    /\ retorno = None

NextFuncoes ==
    \/ ChamarNormalizarSku
    \/ ChamarGerarIdCliente
    \/ ChamarEnriquecer
    \/ ChamarValidarColunas
    \/ ChamarProcessarBdProdutos
    \/ ChamarProcessarVendas
    \/ ChamarDetectSep
    \/ ChamarFixBrokenCsv
    \/ ChamarLerArquivoFallback
    \/ ChamarReparoDuplo

InitSpecFuncoes ==
    /\ InitFuncoes
    /\ RepairIdle /\ text = <<>>
    /\ IndiceIdle
    /\ MetricasIdle
    /\ ExecIdle

SpecFuncoes == InitSpecFuncoes /\ [][NextFuncoes]_vars

InitSpecExecucoes ==
    /\ InitExecucoes
    /\ RepairIdle /\ text = <<>>
    /\ ipc = "idle" /\ bd_pos = 0 /\ indice = EmptyDict /\ consulta = None /\ resultado = None
    /\ MetricasIdle
    /\ FuncoesIdle

SpecExecucoes == InitSpecExecucoes /\ [][NextExecucoes]_vars

====
